---- MODULE Spec2Model ----
(***************************************************************************)
(* A model of the spectral store (reader.DecontaminatedSpectraCollection)  *)
(* and of the contamination compositor (utils.bounding_indices,            *)
(* utils.apply_contaminant) of the inspector repository.                   *)
(*                                                                         *)
(* Arrays are records [h, w, px] with px a function on (0..h-1) x (0..w-1) *)
(* indexed <<row, column>> as NumPy indexes array[row, column].  Pixel     *)
(* values are integers (exact arithmetic).                                 *)
(***************************************************************************)
EXTENDS Integers, Sequences, FiniteSets, TLC

(***************************************************************************)
(* Bounds of the model.                                                    *)
(***************************************************************************)
\* largest width / height of a canvas or contaminant of the compositor runs
MaxSize == 3
\* largest |offset| of the two contaminants of the commutation runs
MaxOff == 1
\* most calls of get_spectrum / steps of a get_spectra generator in a run
MaxCalls == 2
\* most calls of load in a run
MaxLoads == 2
\* most samples of a wavelength grid passed to _calibrate_spectrum
MaxLen == 3

(***************************************************************************)
(* Python builtins used by the compositor.                                 *)
(***************************************************************************)
max(a, b) == IF a >= b THEN a ELSE b

min(a, b) == IF a <= b THEN a ELSE b

\* the value None; a Python string that shares a slot with None is written
\* as a one-element tuple, so that the two can be compared
None == <<>>

\* no exception was raised
NoExc == "no exception"

\* np.zeros_like for an array of shape (h, w)
zeros_like(h, w) == [h |-> h, w |-> w, px |-> [p \in (0..(h-1)) \X (0..(w-1)) |-> 0]]

(***************************************************************************)
(* utils.bounding_indices: boxes are <<left, bottom, width, height>>.      *)
(* Returns <<region1, region2>>, each <<left, bottom, right, top>>, or     *)
(* <<None, None>>.                                                         *)
(***************************************************************************)
\* bounding_indices with the offset between the corners taken the wrong way round
bounding_indices_swapped_offset(box1, box2) ==
    LET left1 == box1[1]  bottom1 == box1[2]  width1 == box1[3]  height1 == box1[4]
        left2 == box2[1]  bottom2 == box2[2]  width2 == box2[3]  height2 == box2[4]
        x_offset == left2 - left1
        y_offset == bottom2 - bottom1
        left == x_offset
        bottom == y_offset
        right == width1 + x_offset
        top == height1 + y_offset
        l2 == max(0, left)
        b2 == max(0, bottom)
        r2 == min(width2, right)
        t2 == min(height2, top)
        l1 == max(0, l2 - x_offset)
        r1 == min(width1, r2 - x_offset)
        b1 == max(0, b2 - y_offset)
        t1 == min(height1, t2 - y_offset)
        boxes_intersect == l1 < r1 /\ b1 < t1 /\ l2 < r2 /\ b2 < t2
    IN  IF boxes_intersect THEN << <<l1, b1, r1, t1>>, <<l2, b2, r2, t2>> >>
        ELSE <<None, None>>

\* bounding_indices without the clipping of the right and top boundaries
bounding_indices_unclipped(box1, box2) ==
    LET left1 == box1[1]  bottom1 == box1[2]  width1 == box1[3]  height1 == box1[4]
        left2 == box2[1]  bottom2 == box2[2]  width2 == box2[3]  height2 == box2[4]
        x_offset == left1 - left2
        y_offset == bottom1 - bottom2
        left == x_offset
        bottom == y_offset
        right == width1 + x_offset
        top == height1 + y_offset
        l2 == max(0, left)
        b2 == max(0, bottom)
        r2 == right
        t2 == top
        l1 == max(0, l2 - x_offset)
        r1 == min(width1, r2 - x_offset)
        b1 == max(0, b2 - y_offset)
        t1 == min(height1, t2 - y_offset)
        boxes_intersect == l1 < r1 /\ b1 < t1 /\ l2 < r2 /\ b2 < t2
    IN  IF boxes_intersect THEN << <<l1, b1, r1, t1>>, <<l2, b2, r2, t2>> >>
        ELSE <<None, None>>

\* bounding_indices with boxes that only touch taken to intersect
bounding_indices_touching(box1, box2) ==
    LET left1 == box1[1]  bottom1 == box1[2]  width1 == box1[3]  height1 == box1[4]
        left2 == box2[1]  bottom2 == box2[2]  width2 == box2[3]  height2 == box2[4]
        \* the offset between the corners of the two boxes
        x_offset == left1 - left2
        y_offset == bottom1 - bottom2
        \* box1's boundaries in the coordinate system of box2
        left == x_offset
        bottom == y_offset
        right == width1 + x_offset
        top == height1 + y_offset
        \* clipped to the region within box2
        l2 == max(0, left)
        b2 == max(0, bottom)
        r2 == min(width2, right)
        t2 == min(height2, top)
        \* the region of overlap in the coordinate system of box1
        l1 == max(0, l2 - x_offset)
        r1 == min(width1, r2 - x_offset)
        b1 == max(0, b2 - y_offset)
        t1 == min(height1, t2 - y_offset)
        boxes_intersect == l1 <= r1 /\ b1 <= t1 /\ l2 <= r2 /\ b2 <= t2
    IN  IF boxes_intersect THEN << <<l1, b1, r1, t1>>, <<l2, b2, r2, t2>> >>
        ELSE <<None, None>>

bounding_indices(box1, box2) ==
    LET left1 == box1[1]  bottom1 == box1[2]  width1 == box1[3]  height1 == box1[4]
        left2 == box2[1]  bottom2 == box2[2]  width2 == box2[3]  height2 == box2[4]
        \* the offset between the corners of the two boxes
        x_offset == left1 - left2
        y_offset == bottom1 - bottom2
        \* box1's boundaries in the coordinate system of box2
        left == x_offset
        bottom == y_offset
        right == width1 + x_offset
        top == height1 + y_offset
        \* clipped to the region within box2
        l2 == max(0, left)
        b2 == max(0, bottom)
        r2 == min(width2, right)
        t2 == min(height2, top)
        \* the region of overlap in the coordinate system of box1
        l1 == max(0, l2 - x_offset)
        r1 == min(width1, r2 - x_offset)
        b1 == max(0, b2 - y_offset)
        t1 == min(height1, t2 - y_offset)
        boxes_intersect == l1 < r1 /\ b1 < t1 /\ l2 < r2 /\ b2 < t2
    IN  IF boxes_intersect THEN << <<l1, b1, r1, t1>>, <<l2, b2, r2, t2>> >>
        ELSE <<None, None>>

(***************************************************************************)
(* NumPy basic slicing a[lo:hi] along an axis of length n: the first index *)
(* selected and the number of indices selected (negative bounds count from *)
(* the end, bounds are clamped to the axis).  In an in-place add the right *)
(* operand is broadcast: an axis of length 1 is repeated.                  *)
(***************************************************************************)
slice_start(lo, n) == IF lo < 0 THEN max(0, lo + n) ELSE min(lo, n)

slice_len(lo, hi, n) == max(0, slice_start(hi, n) - slice_start(lo, n))

(***************************************************************************)
(* utils.apply_contaminant: both arguments are <<(left, bottom), array>>.  *)
(* The canvas array is modified in place; the operator returns             *)
(* [canvas |-> the array afterwards, exc |-> the exception raised].       *)
(***************************************************************************)
\* canvas[can_bottom:can_top, can_left:can_right] +=
\*     contam[contam_bottom:contam_top, contam_left:contam_right]
slice_add(canvas, canvas_boundaries, contam, contam_boundaries) ==
    LET contam_left == contam_boundaries[1]   contam_bottom == contam_boundaries[2]
        contam_right == contam_boundaries[3]  contam_top == contam_boundaries[4]
        can_left == canvas_boundaries[1]      can_bottom == canvas_boundaries[2]
        can_right == canvas_boundaries[3]     can_top == canvas_boundaries[4]
        r0 == slice_start(can_bottom, canvas.h)
        nr == slice_len(can_bottom, can_top, canvas.h)
        c0 == slice_start(can_left, canvas.w)
        nc == slice_len(can_left, can_right, canvas.w)
        sr0 == slice_start(contam_bottom, contam.h)
        snr == slice_len(contam_bottom, contam_top, contam.h)
        sc0 == slice_start(contam_left, contam.w)
        snc == slice_len(contam_left, contam_right, contam.w)
    IN  IF (snr # nr /\ snr # 1) \/ (snc # nc /\ snc # 1)
        THEN \* operands could not be broadcast together
             [canvas |-> canvas, exc |-> "ValueError"]
        ELSE [canvas |-> [canvas EXCEPT !.px =
                 [p \in DOMAIN canvas.px |->
                    IF /\ p[1] >= r0 /\ p[1] < r0 + nr
                       /\ p[2] >= c0 /\ p[2] < c0 + nc
                    THEN canvas.px[p] + contam.px[<<sr0 + (IF snr = nr THEN p[1] - r0 ELSE 0),
                                                    sc0 + (IF snc = nc THEN p[2] - c0 ELSE 0)>>]
                    ELSE canvas.px[p]]],
              exc |-> NoExc]

\* the part of apply_contaminant that follows the call of bounding_indices
apply_boundaries(contam, canvas, boundaries) ==
    LET contam_boundaries == boundaries[1]
        canvas_boundaries == boundaries[2]
    IN  IF contam_boundaries = None \/ canvas_boundaries = None
        THEN \* the contaminant does not intersect the canvas
             [canvas |-> canvas, exc |-> NoExc]
        ELSE slice_add(canvas, canvas_boundaries, contam, contam_boundaries)

\* apply_contaminant with = in place of +=
slice_assign(canvas, canvas_boundaries, contam, contam_boundaries) ==
    LET contam_left == contam_boundaries[1]   contam_bottom == contam_boundaries[2]
        contam_right == contam_boundaries[3]  contam_top == contam_boundaries[4]
        can_left == canvas_boundaries[1]      can_bottom == canvas_boundaries[2]
        can_right == canvas_boundaries[3]     can_top == canvas_boundaries[4]
        r0 == slice_start(can_bottom, canvas.h)
        nr == slice_len(can_bottom, can_top, canvas.h)
        c0 == slice_start(can_left, canvas.w)
        nc == slice_len(can_left, can_right, canvas.w)
        sr0 == slice_start(contam_bottom, contam.h)
        snr == slice_len(contam_bottom, contam_top, contam.h)
        sc0 == slice_start(contam_left, contam.w)
        snc == slice_len(contam_left, contam_right, contam.w)
    IN  IF (snr # nr /\ snr # 1) \/ (snc # nc /\ snc # 1)
        THEN \* operands could not be broadcast together
             [canvas |-> canvas, exc |-> "ValueError"]
        ELSE [canvas |-> [canvas EXCEPT !.px =
                 [p \in DOMAIN canvas.px |->
                    IF /\ p[1] >= r0 /\ p[1] < r0 + nr
                       /\ p[2] >= c0 /\ p[2] < c0 + nc
                    THEN contam.px[<<sr0 + (IF snr = nr THEN p[1] - r0 ELSE 0),
                                                    sc0 + (IF snc = nc THEN p[2] - c0 ELSE 0)>>]
                    ELSE canvas.px[p]]],
              exc |-> NoExc]

apply_contaminant_assign(contaminant_flux, total_contamination) ==
    LET contam == contaminant_flux[2]
        canvas == total_contamination[2]
        contam_box == <<contaminant_flux[1][1], contaminant_flux[1][2], contam.w, contam.h>>
        canvas_box == <<total_contamination[1][1], total_contamination[1][2], canvas.w, canvas.h>>
        boundaries == bounding_indices(contam_box, canvas_box)
    IN  IF boundaries[1] = None \/ boundaries[2] = None
        THEN [canvas |-> canvas, exc |-> NoExc]
        ELSE slice_assign(canvas, boundaries[2], contam, boundaries[1])

apply_contaminant(contaminant_flux, total_contamination) ==
    LET contam == contaminant_flux[2]
        canvas == total_contamination[2]
        contam_box == <<contaminant_flux[1][1], contaminant_flux[1][2], contam.w, contam.h>>
        canvas_box == <<total_contamination[1][1], total_contamination[1][2], canvas.w, canvas.h>>
    IN  apply_boundaries(contam, canvas, bounding_indices(contam_box, canvas_box))

(***************************************************************************)
(* Python dicts.  A dict whose iteration order is not observed is a        *)
(* function on its keys; a dict whose iteration order is observed          *)
(* (get_object_ids, get_spectra) is the sequence of its [k, v] items in    *)
(* insertion order.                                                        *)
(***************************************************************************)
EmptyDict == [k \in {} |-> None]

DictSet(d, k, v) == [x \in (DOMAIN d) \cup {k} |-> IF x = k THEN v ELSE d[x]]

ItemsKeys(items) == {items[i].k : i \in 1..Len(items)}

ItemsGet(items, k) == items[CHOOSE i \in 1..Len(items) : items[i].k = k].v

\* items[k] = v: an existing key keeps its position, a new key is appended
ItemsSet(items, k, v) ==
    IF k \in ItemsKeys(items)
    THEN [i \in 1..Len(items) |-> IF items[i].k = k THEN [k |-> k, v |-> v] ELSE items[i]]
    ELSE Append(items, [k |-> k, v |-> v])

(***************************************************************************)
(* Object ids.  An id is [kind, n]: the integer n (kind "int") or the      *)
(* decimal string of n (kind "str"); a value of any other type has kind    *)
(* "bytes".  str() turns an integer into its decimal string.               *)
(***************************************************************************)
IntId(n) == [kind |-> "int", n |-> n]

StrId(n) == [kind |-> "str", n |-> n]

str(object_id) == [kind |-> "str", n |-> object_id.n]

(***************************************************************************)
(* The HDF5 files the store can be asked to load.  Per file: the           *)
(* attributes read by _load_hdf5, the groups of 'Decontaminated Spectra'   *)
(* and the per-object groups of 'Model Spectra', both in the order h5py    *)
(* iterates them.  An array that is only stored is given by its shape.     *)
(***************************************************************************)
FILE_FORMAT_NAME == "DecontaminatedSpectraCollection"

ones(h, w) == [h |-> h, w |-> w, px |-> [p \in (0..(h-1)) \X (0..(w-1)) |-> 1]]

ramp(h, w) == [h |-> h, w |-> w, px |-> [p \in (0..(h-1)) \X (0..(w-1)) |-> 1 + p[1] * w + p[2]]]

Group(object_id, x_offset, y_offset, shape, contaminants) ==
    [object_id |-> object_id, x_offset |-> x_offset, y_offset |-> y_offset,
     science |-> shape, variance |-> shape, mask |-> shape,
     contaminants |-> contaminants]

Contaminant(id, order) == [id |-> id, order |-> order]

Dataset(order, x_offset, y_offset, pixels) ==
    [order |-> order, x_offset |-> x_offset, y_offset |-> y_offset, pixels |-> pixels]

ObjectModels(n, datasets) == [name |-> StrId(n), datasets |-> datasets]

File(file_format, dither, detector, exp_time, field_id, spectra, models) ==
    [file_format |-> file_format, Dither |-> dither, Detector |-> detector,
     exp_time |-> exp_time, GrismPosition |-> 10 * dither + detector,
     ExposureID |-> exp_time + detector, FieldID |-> <<field_id>>,
     spectra |-> spectra, models |-> models]

OneSpectrum == << Group(StrId(1), 0, 0, <<2, 2>>, << >>) >>

\* a group whose one contaminant is of order 0, of an object without models
ZerothSpectrum == << Group(StrId(1), 0, 0, <<2, 2>>, << Contaminant(1, 0) >>) >>

\* a group whose variance and mask datasets are not of the shape of its
\* science dataset
UnevenSpectrum ==
    << [Group(StrId(1), 0, 0, <<2, 2>>, << >>) EXCEPT !.variance = <<1, 2>>,
                                                     !.mask = <<2, 3>>] >>

Files ==
    \* dither 1, detector 1 of field F1: object 1 has an order-1 and an
    \* order-2 model, object 2 an order-1 model, object 3 none
    "A.h5" :> File(FILE_FORMAT_NAME, 1, 1, 100, "F1",
                << Group(StrId(1), 0, 0, <<2, 2>>, << Contaminant(2, 1) >>),
                   Group(StrId(2), 1, 0, <<2, 2>>, << Contaminant(1, 2), Contaminant(3, 1) >>),
                   Group(StrId(3), 0, 1, <<1, 2>>, << Contaminant(1, 0), Contaminant(2, 1) >>) >>,
                << ObjectModels(1, << Dataset(1, 0, 0, ones(2, 2)), Dataset(2, 1, 1, ramp(2, 2)) >>),
                   ObjectModels(2, << Dataset(1, 1, 0, ramp(2, 2)) >>) >>)
    \* dither 1, detector 2 of field F1, integer object id
 @@ "B.h5" :> File(FILE_FORMAT_NAME, 1, 2, 100, "F1",
                << Group(IntId(1), 0, 0, <<2, 2>>, << >>) >>,
                << ObjectModels(1, << Dataset(1, 0, 0, ones(1, 1)) >>) >>)
    \* dither 2 of another field
 @@ "C.h5" :> File(FILE_FORMAT_NAME, 2, 1, 200, "F2", ZerothSpectrum, << >>)
    \* dither 1 of another field, with another exposure time
 @@ "D.h5" :> File(FILE_FORMAT_NAME, 1, 1, 300, "F2", OneSpectrum, << >>)
    \* a model dataset whose order attribute is 3
 @@ "M.h5" :> File(FILE_FORMAT_NAME, 3, 1, 100, "F1", OneSpectrum,
                << ObjectModels(1, << Dataset(3, 0, 0, ones(1, 1)) >>) >>)
    \* another format tag
 @@ "X.h5" :> File("SpectraCollection", 3, 2, 100, "F1", OneSpectrum, << >>)
    \* attributes on and beyond the limits of the range checks
 @@ "R0.h5" :> File(FILE_FORMAT_NAME, 0, 1, 100, "F1", OneSpectrum, << >>)
 @@ "R5.h5" :> File(FILE_FORMAT_NAME, 5, 1, 100, "F1", OneSpectrum, << >>)
 @@ "R6.h5" :> File(FILE_FORMAT_NAME, 2, 0, 100, "F1", OneSpectrum, << >>)
 @@ "R7.h5" :> File(FILE_FORMAT_NAME, 2, 17, 100, "F1", OneSpectrum, << >>)
 @@ "R8.h5" :> File(FILE_FORMAT_NAME, 2, 2, 0, "F1", OneSpectrum, << >>)
 @@ "E.h5" :> File(FILE_FORMAT_NAME, 4, 16, 100, "F1", UnevenSpectrum, << >>)

\* the JSON files the store can be asked to load, each with the list of HDF5
\* file names json.load reads from it
Manifests ==
    "ab.json" :> <<"A.h5", "B.h5">>
    \* the second file has another format tag
 @@ "axe.json" :> <<"A.h5", "X.h5", "E.h5">>
    \* the second file is of another field
 @@ "ade.json" :> <<"A.h5", "D.h5", "E.h5">>
    \* the second file is not an HDF5 file
 @@ "an.json" :> <<"A.h5", "N.h5">>
    \* a JSON file named by a relative path
 @@ "rel.json" :> <<"A.h5">>

\* N.h5 is not an HDF5 file, notes.txt has an extension load() rejects
FileNames == (DOMAIN Files) \cup {"N.h5", "notes.txt"} \cup (DOMAIN Manifests)

\* filename.split('.')[-1]
split_last(filename) ==
    IF filename = "notes.txt" THEN "txt"
    ELSE IF filename \in DOMAIN Manifests THEN "json"
    ELSE "h5"

\* os.path.isabs(filename)
isabs(filename) == filename # "rel.json"

\* json.load(f) of the file opened
json_load(filename) == Manifests[filename]

VALID_EXTENSIONS == {"h5", "hde", "hdf", "hdf5", "he5", "json"}

(***************************************************************************)
(* The other files the Inspector can be asked to load.                     *)
(***************************************************************************)
\* location tables: HDF5 files, each with the ids under 'Location Objects'
LocationFiles == "L.h5" :> <<StrId(1), StrId(2)>> @@ "L2.h5" :> <<StrId(3)>>

\* JSON files that list location tables; N.h5 is not an HDF5 file
LocationLists ==
    "loc.json" :> <<"L.h5">> @@ "loc2.json" :> <<"L2.h5">> @@ "locbad.json" :> <<"L.h5", "N.h5">>

\* NISP exposures: FITS files, each with the DITHSEQ of its primary header
\* and the EXPTIME of the header of its detector 1
ExposureFiles ==
    "d1.fits" :> [DITHSEQ |-> 1, EXPTIME |-> 2] @@ "d2.fits" :> [DITHSEQ |-> 2, EXPTIME |-> 100]

\* JSON files that list exposures; notes.txt is not a FITS file
ExposureLists ==
    "exp.json" :> <<"d1.fits", "d2.fits">> @@ "expbad.json" :> <<"d1.fits", "notes.txt">>

\* JSON files of sensitivity curves: a dictionary from the dither, as a
\* string, to the table (wavelengths, values) np.loadtxt reads from the file
\* it names, or something that is not a dictionary
SensitivityFiles ==
    "sens.json" :> [dict |-> TRUE,
                    entries |-> "1" :> << <<5, 20>>, <<2, 2>> >>
                                @@ "2" :> << <<5, 20>>, <<-3, -3>> >>]
 @@ "senslist.json" :> [dict |-> FALSE, entries |-> << >>]

\* saved sessions: the dictionary json.load returns
Sessions ==
    "good.sir" :> [exposures |-> "exp.json", spectra |-> "A.h5",
                   location_tables |-> "loc.json", grism_sensitivities |-> "sens.json"]
 @@ "clean.sir" :> [exposures |-> "exp.json", spectra |-> "C.h5",
                    location_tables |-> "loc.json", grism_sensitivities |-> "sens.json"]
 @@ "empty.sir" :> [exposures |-> "", spectra |-> "", location_tables |-> "",
                    grism_sensitivities |-> ""]
 @@ "badloc.sir" :> [exposures |-> "", spectra |-> "C.h5", location_tables |-> "locbad.json",
                     grism_sensitivities |-> ""]
 @@ "senslist.sir" :> [exposures |-> "exp.json", spectra |-> "", location_tables |-> "",
                       grism_sensitivities |-> "senslist.json"]
 @@ "nospectra.sir" :> [exposures |-> "exp.json"]

JsonFileNames ==
    (DOMAIN LocationLists) \cup (DOMAIN ExposureLists) \cup (DOMAIN SensitivityFiles)

\* h5py.is_hdf5(filename)
is_hdf5(filename) == filename \in (DOMAIN Files) \cup (DOMAIN LocationFiles)

\* h5py.File(filename, 'r')
h5py_File(filename) == Files[filename]

(***************************************************************************)
(* The store: self is the record of the fields of a                        *)
(* DecontaminatedSpectraCollection.  An operator for a method that         *)
(* modifies the object returns [self, exc]; one that only reads returns    *)
(* [val, exc].                                                             *)
(***************************************************************************)
\* DecontaminatedSpectraCollection.__init__ without a filename
__init__ ==
    [_field_id |-> None,
     _exposure_time |-> EmptyDict,
     _exposure_id |-> EmptyDict,
     _exposure_grism_position |-> EmptyDict,
     _hdf5_spectra |-> EmptyDict,
     _hdf5_models |-> EmptyDict]

Return(v) == [val |-> v, exc |-> NoExc]

Raise(e) == [val |-> None, exc |-> e]

get_dithers(self) == Return(DOMAIN self._hdf5_spectra)

get_detectors(self, dither) ==
    IF dither \in DOMAIN self._hdf5_spectra
    THEN Return(DOMAIN self._hdf5_spectra[dither])
    ELSE Raise("KeyError")

get_object_ids(self, dither, detector) ==
    IF dither \in DOMAIN self._hdf5_spectra /\ detector \in DOMAIN self._hdf5_spectra[dither]
    THEN LET items == self._hdf5_spectra[dither][detector]
         IN  Return([i \in 1..Len(items) |-> items[i].k])
    ELSE Raise("KeyError")

get_exposure_id(self, dither) ==
    IF dither \in DOMAIN self._exposure_id
    THEN Return(self._exposure_id[dither]) ELSE Raise("KeyError")

get_exposure_time(self, dither) ==
    IF dither \in DOMAIN self._exposure_time
    THEN Return(self._exposure_time[dither]) ELSE Raise("KeyError")

get_grism_position(self, dither) ==
    IF dither \in DOMAIN self._exposure_grism_position
    THEN Return(self._exposure_grism_position[dither]) ELSE Raise("KeyError")

\* get_model without the check of order == 0
get_model_order_unchecked(self, dither, detector, object_id, order) ==
    IF /\ dither \in DOMAIN self._hdf5_models
       /\ detector \in DOMAIN self._hdf5_models[dither]
       /\ str(object_id) \in DOMAIN self._hdf5_models[dither][detector]
       /\ order \in DOMAIN self._hdf5_models[dither][detector][str(object_id)]
    THEN Return(self._hdf5_models[dither][detector][str(object_id)][order])
    ELSE Return(None)

\* get_model without the except KeyError clause
get_model_uncaught(self, dither, detector, object_id, order) ==
    IF order = 0 THEN Raise("ValueError")
    ELSE IF /\ dither \in DOMAIN self._hdf5_models
            /\ detector \in DOMAIN self._hdf5_models[dither]
            /\ str(object_id) \in DOMAIN self._hdf5_models[dither][detector]
            /\ order \in DOMAIN self._hdf5_models[dither][detector][str(object_id)]
         THEN Return(self._hdf5_models[dither][detector][str(object_id)][order])
         ELSE Raise("KeyError")

get_model(self, dither, detector, object_id, order) ==
    IF order = 0 THEN Raise("ValueError")
    ELSE IF /\ dither \in DOMAIN self._hdf5_models
            /\ detector \in DOMAIN self._hdf5_models[dither]
            /\ str(object_id) \in DOMAIN self._hdf5_models[dither][detector]
            /\ order \in DOMAIN self._hdf5_models[dither][detector][str(object_id)]
         THEN Return(self._hdf5_models[dither][detector][str(object_id)][order])
         ELSE \* except KeyError
              Return(None)

(***************************************************************************)
(* _compute_total_contamination: adds the model of every contaminant of    *)
(* order # 0 to the spectrum's contamination array, in place.  Returns     *)
(* [canvas |-> the contamination array afterwards, exc].                   *)
(***************************************************************************)
\* contaminants_loop without the test of the order
RECURSIVE contaminants_loop_no_skip(_, _, _, _, _, _)
contaminants_loop_no_skip(self, dither, detector, decontaminated_spectrum, contamination, i) ==
    LET contaminants == decontaminated_spectrum.contaminants
    IN  IF i > Len(contaminants) THEN [canvas |-> contamination, exc |-> NoExc]
        ELSE LET model_id == IntId(contaminants[i].id)
                 model_order == contaminants[i].order
                 got == get_model(self, dither, detector, model_id, model_order)
                 contam == got.val
             IN  IF got.exc # NoExc THEN [canvas |-> contamination, exc |-> got.exc]
                 ELSE IF contam = None
                 THEN [canvas |-> contamination, exc |-> "AttributeError"]
                 ELSE LET contaminant_flux == << <<contam.x_offset, contam.y_offset>>, contam.pixels >>
                          total_contamination ==
                             << <<decontaminated_spectrum.x_offset,
                                  decontaminated_spectrum.y_offset>>, contamination >>
                          r == apply_contaminant(contaminant_flux, total_contamination)
                      IN  IF r.exc # NoExc THEN r
                          ELSE contaminants_loop_no_skip(self, dither, detector,
                                                         decontaminated_spectrum, r.canvas, i + 1)

RECURSIVE contaminants_loop(_, _, _, _, _, _)
contaminants_loop(self, dither, detector, decontaminated_spectrum, contamination, i) ==
    LET contaminants == decontaminated_spectrum.contaminants
    IN  IF i > Len(contaminants) THEN [canvas |-> contamination, exc |-> NoExc]
        ELSE LET model_id == IntId(contaminants[i].id)
                 model_order == contaminants[i].order
             IN  IF model_order # 0
                 THEN LET contam == get_model(self, dither, detector, model_id, model_order).val
                      IN  IF contam = None
                          THEN \* contam.x_offset on None
                               [canvas |-> contamination, exc |-> "AttributeError"]
                          ELSE LET contaminant_flux == << <<contam.x_offset, contam.y_offset>>, contam.pixels >>
                                   total_contamination ==
                                      << <<decontaminated_spectrum.x_offset,
                                           decontaminated_spectrum.y_offset>>, contamination >>
                                   r == apply_contaminant(contaminant_flux, total_contamination)
                               IN  IF r.exc # NoExc THEN r
                                   ELSE contaminants_loop(self, dither, detector,
                                                          decontaminated_spectrum, r.canvas, i + 1)
                 ELSE contaminants_loop(self, dither, detector,
                                        decontaminated_spectrum, contamination, i + 1)

_compute_total_contamination(self, dither, detector, decontaminated_spectrum) ==
    contaminants_loop(self, dither, detector, decontaminated_spectrum,
                      decontaminated_spectrum.contamination, 1)

(***************************************************************************)
(* get_spectrum: returns [self, val, exc]; self differs from the argument  *)
(* by the contamination array of the spectrum found.                       *)
(***************************************************************************)
\* the spectrum found, its contamination array as _compute_total_contamination left it
materialized(self, dither, detector, object_id, spec, r) ==
    [self |-> [self EXCEPT !._hdf5_spectra[dither][detector] =
                  ItemsSet(@, str(object_id), [spec EXCEPT !.contamination = r.canvas])],
     val |-> IF r.exc # NoExc THEN None ELSE [spec EXCEPT !.contamination = r.canvas],
     exc |-> r.exc]

get_spectrum(self, dither, detector, object_id) ==
    IF /\ dither \in DOMAIN self._hdf5_spectra
       /\ detector \in DOMAIN self._hdf5_spectra[dither]
       /\ str(object_id) \in ItemsKeys(self._hdf5_spectra[dither][detector])
    THEN materialized(self, dither, detector, object_id,
                      ItemsGet(self._hdf5_spectra[dither][detector], str(object_id)),
                      _compute_total_contamination(self, dither, detector,
                          ItemsGet(self._hdf5_spectra[dither][detector], str(object_id))))
    ELSE \* except KeyError
         [self |-> self, val |-> None, exc |-> NoExc]

(***************************************************************************)
(* Loading one HDF5 file.                                                  *)
(***************************************************************************)
\* the id setter of DecontaminatedSpectrum and ModelSpectrum
id_setter(object_id) ==
    IF object_id.kind = "int" THEN Return(str(object_id))
    ELSE IF object_id.kind = "str" THEN Return(object_id)
    ELSE Raise("TypeError")

\* utils.verify_2d_numpy_array for an array given by its shape
verify_2d_numpy_array(shape) == IF Len(shape) # 2 THEN "TypeError" ELSE NoExc

\* _load_spectrum_from_hdf5_group with a contamination array that is not zeroed
_load_spectrum_from_hdf5_group_empty_like(self, group, dither, detector) ==
    LET s1 == IF dither \notin DOMAIN self._hdf5_spectra
              THEN [self EXCEPT !._hdf5_spectra = DictSet(@, dither, EmptyDict)] ELSE self
        s2 == IF detector \notin DOMAIN s1._hdf5_spectra[dither]
              THEN [s1 EXCEPT !._hdf5_spectra[dither] = DictSet(@, detector, << >>)] ELSE s1
        object_id == group.object_id
        id == id_setter(object_id)
    IN  IF id.exc # NoExc THEN [self |-> s2, exc |-> id.exc]
        ELSE IF verify_2d_numpy_array(group.science) # NoExc THEN [self |-> s2, exc |-> "TypeError"]
        ELSE IF verify_2d_numpy_array(group.variance) # NoExc THEN [self |-> s2, exc |-> "TypeError"]
        ELSE IF verify_2d_numpy_array(group.mask) # NoExc THEN [self |-> s2, exc |-> "TypeError"]
        ELSE LET spec == [id |-> id.val,
                          x_offset |-> group.x_offset,
                          y_offset |-> group.y_offset,
                          science |-> group.science,
                          variance |-> group.variance,
                          mask |-> group.mask,
                          contaminants |-> group.contaminants,
                          contamination |-> ones(group.science[1], group.science[2])]
             IN  [self |-> [s2 EXCEPT !._hdf5_spectra[dither][detector] =
                               ItemsSet(@, object_id, spec)],
                  exc |-> NoExc]

_load_spectrum_from_hdf5_group(self, group, dither, detector) ==
    LET s1 == IF dither \notin DOMAIN self._hdf5_spectra
              THEN [self EXCEPT !._hdf5_spectra = DictSet(@, dither, EmptyDict)] ELSE self
        s2 == IF detector \notin DOMAIN s1._hdf5_spectra[dither]
              THEN [s1 EXCEPT !._hdf5_spectra[dither] = DictSet(@, detector, << >>)] ELSE s1
        object_id == group.object_id
        id == id_setter(object_id)
    IN  IF id.exc # NoExc THEN [self |-> s2, exc |-> id.exc]
        ELSE IF verify_2d_numpy_array(group.science) # NoExc THEN [self |-> s2, exc |-> "TypeError"]
        ELSE IF verify_2d_numpy_array(group.variance) # NoExc THEN [self |-> s2, exc |-> "TypeError"]
        ELSE IF verify_2d_numpy_array(group.mask) # NoExc THEN [self |-> s2, exc |-> "TypeError"]
        ELSE LET spec == [id |-> id.val,
                          x_offset |-> group.x_offset,
                          y_offset |-> group.y_offset,
                          science |-> group.science,
                          variance |-> group.variance,
                          mask |-> group.mask,
                          contaminants |-> group.contaminants,
                          contamination |-> zeros_like(group.science[1], group.science[2])]
             IN  [self |-> [s2 EXCEPT !._hdf5_spectra[dither][detector] =
                               ItemsSet(@, object_id, spec)],
                  exc |-> NoExc]

RECURSIVE spectra_loop(_, _, _)
spectra_loop(self, hdf5_file, i) ==
    IF i > Len(hdf5_file.spectra) THEN [self |-> self, exc |-> NoExc]
    ELSE LET r == _load_spectrum_from_hdf5_group(self, hdf5_file.spectra[i],
                                                 hdf5_file.Dither, hdf5_file.Detector)
         IN  IF r.exc # NoExc THEN r ELSE spectra_loop(r.self, hdf5_file, i + 1)

_load_spectra_from_hdf5(self, hdf5_file) == spectra_loop(self, hdf5_file, 1)

_load_model_from_hdf5_dataset(self, dataset, dither, detector, object_id) ==
    LET s1 == IF dither \notin DOMAIN self._hdf5_models
              THEN [self EXCEPT !._hdf5_models = DictSet(@, dither, EmptyDict)] ELSE self
        s2 == IF detector \notin DOMAIN s1._hdf5_models[dither]
              THEN [s1 EXCEPT !._hdf5_models[dither] = DictSet(@, detector, EmptyDict)] ELSE s1
        s3 == IF object_id \notin DOMAIN s2._hdf5_models[dither][detector]
              THEN [s2 EXCEPT !._hdf5_models[dither][detector] = DictSet(@, object_id, EmptyDict)]
              ELSE s2
        order == dataset.order
        id == id_setter(object_id)
    IN  IF id.exc # NoExc THEN [self |-> s3, exc |-> id.exc]
        ELSE IF order \notin {1, 2} THEN [self |-> s3, exc |-> "ValueError"]
        ELSE LET spec == [id |-> id.val, order |-> order, pixels |-> dataset.pixels,
                          x_offset |-> dataset.x_offset, y_offset |-> dataset.y_offset]
             IN  [self |-> [s3 EXCEPT !._hdf5_models[dither][detector][object_id] =
                               DictSet(@, order, spec)],
                  exc |-> NoExc]

\* the local variable model before its first assignment
Unbound == [unbound |-> TRUE]

\* for order in object_models: model = object_models[order]
last_dataset(datasets, model) == IF Len(datasets) = 0 THEN model ELSE datasets[Len(datasets)]

RECURSIVE models_loop(_, _, _, _)
models_loop(self, hdf5_file, i, model) ==
    IF i > Len(hdf5_file.models) THEN [self |-> self, exc |-> NoExc]
    ELSE LET object_models == hdf5_file.models[i]
             model1 == last_dataset(object_models.datasets, model)
         IN  IF model1 = Unbound THEN [self |-> self, exc |-> "UnboundLocalError"]
             ELSE LET r == _load_model_from_hdf5_dataset(self, model1, hdf5_file.Dither,
                                                         hdf5_file.Detector, object_models.name)
                  IN  IF r.exc # NoExc THEN r
                      ELSE models_loop(r.self, hdf5_file, i + 1, model1)

_load_models_from_hdf5(self, hdf5_file) == models_loop(self, hdf5_file, 1, Unbound)

\* _load_hdf5 with the exposure time checked after the metadata is stored
_load_hdf5_late_exposure_check(self, filename) ==
    IF ~is_hdf5(filename) THEN [self |-> self, exc |-> "ValueError"]
    ELSE LET h5_file == h5py_File(filename)
             dither == h5_file.Dither
             detector == h5_file.Detector
             exposure_time == h5_file.exp_time
         IN  IF h5_file.file_format # FILE_FORMAT_NAME THEN [self |-> self, exc |-> "ValueError"]
             ELSE IF dither < 1 \/ dither > 4 THEN [self |-> self, exc |-> "ValueError"]
             ELSE IF detector < 1 \/ detector > 16 THEN [self |-> self, exc |-> "ValueError"]
             ELSE LET s1 == [self EXCEPT
                               !._exposure_time = DictSet(@, dither, exposure_time),
                               !._exposure_grism_position = DictSet(@, dither, h5_file.GrismPosition),
                               !._exposure_id = DictSet(@, dither, h5_file.ExposureID)]
                      field_id == h5_file.FieldID
                  IN  IF exposure_time <= 0 THEN [self |-> s1, exc |-> "ValueError"]
                      ELSE IF s1._field_id # None /\ s1._field_id # field_id
                      THEN [self |-> s1, exc |-> "ValueError"]
                      ELSE LET s2 == [s1 EXCEPT !._field_id = field_id]
                               r == _load_spectra_from_hdf5(s2, h5_file)
                           IN  IF r.exc # NoExc THEN r
                               ELSE _load_models_from_hdf5(r.self, h5_file)

\* _load_hdf5 without the comparison of the field ids
_load_hdf5_any_field(self, filename) ==
    IF ~is_hdf5(filename) THEN [self |-> self, exc |-> "ValueError"]
    ELSE LET h5_file == h5py_File(filename)
             dither == h5_file.Dither
             detector == h5_file.Detector
             exposure_time == h5_file.exp_time
         IN  IF h5_file.file_format # FILE_FORMAT_NAME THEN [self |-> self, exc |-> "ValueError"]
             ELSE IF dither < 1 \/ dither > 4 THEN [self |-> self, exc |-> "ValueError"]
             ELSE IF detector < 1 \/ detector > 16 THEN [self |-> self, exc |-> "ValueError"]
             ELSE IF exposure_time <= 0 THEN [self |-> self, exc |-> "ValueError"]
             ELSE LET s1 == [self EXCEPT
                               !._exposure_time = DictSet(@, dither, exposure_time),
                               !._exposure_grism_position = DictSet(@, dither, h5_file.GrismPosition),
                               !._exposure_id = DictSet(@, dither, h5_file.ExposureID)]
                      field_id == h5_file.FieldID
                      s2 == [s1 EXCEPT !._field_id = field_id]
                      r == _load_spectra_from_hdf5(s2, h5_file)
                  IN  IF r.exc # NoExc THEN r
                      ELSE _load_models_from_hdf5(r.self, h5_file)

_load_hdf5(self, filename) ==
    IF ~is_hdf5(filename) THEN [self |-> self, exc |-> "ValueError"]
    ELSE LET h5_file == h5py_File(filename)
             dither == h5_file.Dither
             detector == h5_file.Detector
             exposure_time == h5_file.exp_time
         IN  IF h5_file.file_format # FILE_FORMAT_NAME THEN [self |-> self, exc |-> "ValueError"]
             ELSE IF dither < 1 \/ dither > 4 THEN [self |-> self, exc |-> "ValueError"]
             ELSE IF detector < 1 \/ detector > 16 THEN [self |-> self, exc |-> "ValueError"]
             ELSE IF exposure_time <= 0 THEN [self |-> self, exc |-> "ValueError"]
             ELSE LET s1 == [self EXCEPT
                               !._exposure_time = DictSet(@, dither, exposure_time),
                               !._exposure_grism_position = DictSet(@, dither, h5_file.GrismPosition),
                               !._exposure_id = DictSet(@, dither, h5_file.ExposureID)]
                      field_id == h5_file.FieldID
                  IN  IF s1._field_id # None /\ s1._field_id # field_id
                      THEN [self |-> s1, exc |-> "ValueError"]
                      ELSE LET s2 == [s1 EXCEPT !._field_id = field_id]
                               r == _load_spectra_from_hdf5(s2, h5_file)
                           IN  IF r.exc # NoExc THEN r
                               ELSE _load_models_from_hdf5(r.self, h5_file)

_check_filename_extension(filename_extension) ==
    IF filename_extension \notin VALID_EXTENSIONS THEN "ValueError" ELSE NoExc

\* the second loop of _load_json: the files are loaded in the order listed;
\* the result also tells how many of them _load_hdf5 returned normally from
RECURSIVE json_loop(_, _, _)
json_step(r, decontaminated_spectra_collection_filenames, i) ==
    IF r.exc # NoExc THEN [self |-> r.self, exc |-> r.exc, merged |-> i - 1]
    ELSE json_loop(r.self, decontaminated_spectra_collection_filenames, i + 1)

json_loop(self, decontaminated_spectra_collection_filenames, i) ==
    IF i > Len(decontaminated_spectra_collection_filenames)
    THEN [self |-> self, exc |-> NoExc, merged |-> i - 1]
    ELSE json_step(_load_hdf5(self, decontaminated_spectra_collection_filenames[i]),
                   decontaminated_spectra_collection_filenames, i)

_load_json(self, filename) ==
    IF ~isabs(filename) THEN [self |-> self, exc |-> "ValueError", merged |-> 0]
    ELSE LET decontaminated_spectra_collection_filenames == json_load(filename)
         IN  IF \E i \in 1..Len(decontaminated_spectra_collection_filenames) :
                   ~is_hdf5(decontaminated_spectra_collection_filenames[i])
             THEN [self |-> self, exc |-> "TypeError", merged |-> 0]
             ELSE json_loop(self, decontaminated_spectra_collection_filenames, 1)

load(self, filename) ==
    LET filename_extension == split_last(filename)
    IN  IF _check_filename_extension(filename_extension) # NoExc
        THEN [self |-> self, exc |-> "ValueError"]
        ELSE IF filename_extension = "json" THEN _load_json(self, filename)
        ELSE _load_hdf5(self, filename)

\* the HDF5 files that _load_hdf5 returned normally from during the call
\* load(self, filename) whose result is r
merged(filename, r) ==
    IF split_last(filename) = "json"
    THEN {json_load(filename)[i] : i \in 1..r.merged}
    ELSE IF r.exc = NoExc THEN {filename} ELSE {}

(***************************************************************************)
(* NumPy floating-point arithmetic, modelled exactly: a number is the      *)
(* fraction [n, d] in lowest terms with d >= 0; d = 0 stands for inf       *)
(* (n = 1), -inf (n = -1) and nan (n = 0).  A 1-D array is a sequence of   *)
(* numbers.  Rounding is not modelled.                                     *)
(***************************************************************************)
abs(x) == IF x < 0 THEN -x ELSE x

sign(x) == IF x > 0 THEN 1 ELSE IF x < 0 THEN -1 ELSE 0

RECURSIVE gcd(_, _)
gcd(a, b) == IF b = 0 THEN a ELSE gcd(b, a % b)

Frac(n, d) ==
    IF d = 0 THEN [n |-> sign(n), d |-> 0]
    ELSE [n |-> (sign(d) * n) \div gcd(abs(n), abs(d)), d |-> abs(d) \div gcd(abs(n), abs(d))]

Num(i) == Frac(i, 1)

true_divide(a, b) == Frac(a.n * b.d, a.d * b.n)

multiply(a, b) == Frac(a.n * b.n, a.d * b.d)

subtract(a, b) == Frac(a.n * b.d - b.n * a.d, a.d * b.d)

add(a, b) == Frac(a.n * b.d + b.n * a.d, a.d * b.d)

fabs(a) == [n |-> abs(a.n), d |-> a.d]

isfinite(a) == a.d # 0

less_equal(a, b) == a.n * b.d <= b.n * a.d

\* np.diff of a 1-D array
diff(a) == [i \in 1..(Len(a) - 1) |-> subtract(a[i + 1], a[i])]

\* a / b for two 1-D arrays, with broadcasting
divide_arrays(a, b) ==
    IF Len(a) = Len(b) THEN Return([i \in 1..Len(a) |-> true_divide(a[i], b[i])])
    ELSE IF Len(a) = 1 THEN Return([i \in 1..Len(b) |-> true_divide(a[1], b[i])])
    ELSE IF Len(b) = 1 THEN Return([i \in 1..Len(a) |-> true_divide(a[i], b[1])])
    ELSE \* operands could not be broadcast together
         Raise("ValueError")

\* a * b for two 1-D arrays, with broadcasting
multiply_arrays(a, b) ==
    IF Len(a) = Len(b) THEN Return([i \in 1..Len(a) |-> multiply(a[i], b[i])])
    ELSE IF Len(a) = 1 THEN Return([i \in 1..Len(b) |-> multiply(a[1], b[i])])
    ELSE IF Len(b) = 1 THEN Return([i \in 1..Len(a) |-> multiply(a[i], b[1])])
    ELSE \* operands could not be broadcast together
         Raise("ValueError")

\* utils.div0 with the numerator and the denominator exchanged
div0_swapped(a, b) ==
    [i \in 1..Len(b) |->
        IF isfinite(true_divide(b[i], a)) THEN true_divide(b[i], a) ELSE Num(0)]

\* utils.div0 without the assignment of 0 to the entries that are not finite
div0_unmasked(a, b) == [i \in 1..Len(b) |-> true_divide(a, b[i])]

\* utils.div0(a, b) for a scalar a and a 1-D array b
div0(a, b) ==
    [i \in 1..Len(b) |->
        IF isfinite(true_divide(a, b[i])) THEN true_divide(a, b[i]) ELSE Num(0)]

\* np.interp(x, xp, fp) at one point x, xp increasing
interp(x, xp, fp) ==
    IF less_equal(x, xp[1]) THEN fp[1]
    ELSE IF less_equal(xp[Len(xp)], x) THEN fp[Len(fp)]
    ELSE LET i == CHOOSE i \in 1..(Len(xp) - 1) :
                     less_equal(xp[i], x) /\ ~less_equal(xp[i + 1], x)
         IN  add(fp[i], true_divide(multiply(subtract(fp[i + 1], fp[i]), subtract(x, xp[i])),
                                    subtract(xp[i + 1], xp[i])))

\* utils.interp_multiply
interp_multiply(w1, data1, w2, data2) ==
    multiply_arrays([i \in 1..Len(w1) |-> interp(w1[i], w2, data2)], data1)

(***************************************************************************)
(* object_tab.SpecPlot._calibrate_spectrum; _inspector is the record of    *)
(* the fields of the Inspector it reads.                                   *)
(***************************************************************************)
\* QMessageBox(*args), the arguments given by their types: the overloads are
\* QMessageBox(parent: QWidget = None) and QMessageBox(icon, title, text, ...)
QMessageBox(args) ==
    IF Len(args) = 0 THEN NoExc
    ELSE IF Len(args) = 1 /\ args[1] = "QWidget" THEN NoExc
    ELSE IF Len(args) >= 3 /\ args[1] = "int" /\ args[2] = "str" /\ args[3] = "str" THEN NoExc
    ELSE \* arguments did not match any overloaded call
         "TypeError"

\* the statements of _calibrate_spectrum from the exposure time on
calibrate(sensitivity, exposure_time, dl, spec_1d, wavelengths) ==
    IF Len(dl) = 0
    THEN \* dl[0]
         Raise("IndexError")
    ELSE LET denom == [i \in 1..(Len(dl) + 1) |->
                          multiply(IF i <= Len(dl) THEN dl[i] ELSE dl[1], Num(exposure_time))]
             sensitivity_wav == sensitivity[1]
             sensitivity_value == sensitivity[2]
             inverse_sensitivity == div0(Num(1), sensitivity_value)
             quotient == divide_arrays(spec_1d, denom)
         IN  IF quotient.exc # NoExc THEN quotient
             ELSE interp_multiply(wavelengths, quotient.val, sensitivity_wav, inverse_sensitivity)

_calibrate_spectrum(_inspector, dither, spec_1d, wavelengths) ==
    IF _inspector.sensitivities[dither] = None
    THEN IF QMessageBox(<<"Inspector", "str">>) # NoExc
         THEN Raise(QMessageBox(<<"Inspector", "str">>))
         ELSE Return(None)
    ELSE IF _inspector.exposures = None
    THEN \* 'NoneType' object is not subscriptable
         Raise("TypeError")
    ELSE IF dither \notin DOMAIN _inspector.exposures THEN Raise("KeyError")
    ELSE calibrate(_inspector.sensitivities[dither], _inspector.exposures[dither],
                   [i \in 1..(Len(wavelengths) - 1) |-> fabs(diff(wavelengths)[i])],
                   spec_1d, wavelengths)

(***************************************************************************)
(* object_tab.SpecPlot._plot.  The window of the plot is computed from the *)
(* wavelengths of the pixels; a 1-D array is sliced by the two indices.    *)
(***************************************************************************)
min_wav == 12400

max_wav == 18600

\* np.argmin of a 1-D array that is not empty: the first index (from 0) of
\* the smallest value
argmin(a) ==
    (CHOOSE i \in 1..Len(a) :
        /\ \A j \in 1..Len(a) : less_equal(a[i], a[j])
        /\ \A j \in 1..(i - 1) : ~less_equal(a[j], a[i])) - 1

\* the indices i_min and i_max of _plot
window(wavelengths) ==
    LET short_wav_end ==
           argmin([i \in 1..Len(wavelengths) |-> fabs(subtract(wavelengths[i], Num(min_wav)))])
        long_wav_end ==
           argmin([i \in 1..Len(wavelengths) |-> fabs(subtract(wavelengths[i], Num(max_wav)))])
    IN  [i_min |-> min(short_wav_end, long_wav_end),
         i_max |-> max(short_wav_end, long_wav_end)]

\* the lengths of x_values = wavelengths[i_min: i_max] and of
\* y_values[i_min: i_max] for a y_values of n samples
sliced(wavelengths, n) ==
    [i_min |-> window(wavelengths).i_min,
     i_max |-> window(wavelengths).i_max,
     x_values |-> slice_len(window(wavelengths).i_min, window(wavelengths).i_max,
                            Len(wavelengths)),
     y_values |-> slice_len(window(wavelengths).i_min, window(wavelengths).i_max, n)]

\* the spectrum that get_spectrum returned: spec.solution.  The class
\* DecontaminatedSpectrum declares __slots__ without 'solution', and None has
\* no attributes
solution(spec) == Raise("AttributeError")

\* _plot up to the statement that raises on every path; self is the record
\* of _object_id and _data_series, c is self._inspector.collection.
\* Returns [collection, val, exc]
plotted(self, dither, detector, r) ==
    IF r.exc # NoExc THEN [collection |-> r.self, val |-> None, exc |-> r.exc]
    ELSE [collection |-> r.self, val |-> None, exc |-> solution(r.val).exc]

_plot(self, c, dither, detector) ==
    IF self._data_series = 0 THEN [collection |-> c, val |-> None, exc |-> NoExc]
    ELSE IF c = None
    THEN \* 'NoneType' object has no attribute 'get_spectrum'
         [collection |-> c, val |-> None, exc |-> "AttributeError"]
    ELSE plotted(self, dither, detector, get_spectrum(c, dither, detector, self._object_id))

(***************************************************************************)
(* inspector.Inspector.load_spectra; self is the record of the fields      *)
(* collection, spectra, _session and _loading_session of the Inspector.    *)
(***************************************************************************)
\* os.path.isfile(filename)
isfile(filename) == filename \in FileNames \cup JsonFileNames

\* DecontaminatedSpectraCollection(filename, parent)
DecontaminatedSpectraCollection(filename) == load(__init__, filename)

\* the elements of a set of integers in increasing order
RECURSIVE sorted(_)
sorted(S) ==
    IF S = {} THEN << >>
    ELSE LET m == CHOOSE x \in S : \A y \in S : x <= y
         IN  <<m>> \o sorted(S \ {m})

\* the (dither, detector, object_id) triples in the order the three loops of
\* _organize_spectra_by_object_id visit them; every collection load_spectra
\* makes is filled from files listed in increasing order of dither and detector
RECURSIVE detector_keys(_, _, _, _)
detector_keys(c, dither, detectors, i) ==
    IF i > Len(detectors) THEN << >>
    ELSE [j \in 1..Len(get_object_ids(c, dither, detectors[i]).val) |->
             <<dither, detectors[i], get_object_ids(c, dither, detectors[i]).val[j]>>]
         \o detector_keys(c, dither, detectors, i + 1)

RECURSIVE dither_keys(_, _, _)
dither_keys(c, dithers, i) ==
    IF i > Len(dithers) THEN << >>
    ELSE detector_keys(c, dithers[i], sorted(get_detectors(c, dithers[i]).val), 1)
         \o dither_keys(c, dithers, i + 1)

\* self.spectra after the three "not in" tests of the loop body
index_entry(index, object_id, dither, detector) ==
    LET s1 == IF object_id \notin DOMAIN index
              THEN DictSet(index, object_id, DictSet(EmptyDict, dither, EmptyDict)) ELSE index
        s2 == IF dither \notin DOMAIN s1[object_id]
              THEN [s1 EXCEPT ![object_id] = DictSet(@, dither, EmptyDict)] ELSE s1
    IN  IF detector \notin DOMAIN s2[object_id][dither]
        THEN [s2 EXCEPT ![object_id][dither] = DictSet(@, detector, None)] ELSE s2

\* one pass of the innermost loop body, r the result of get_spectrum
RECURSIVE organize_loop(_, _, _, _)
organize_step(c, index, keys, i, r) ==
    IF r.exc # NoExc THEN [collection |-> r.self, spectra |-> index, exc |-> r.exc]
    ELSE organize_loop(r.self,
                       [index EXCEPT ![keys[i][3]][keys[i][1]][keys[i][2]] = r.val],
                       keys, i + 1)

organize_loop(c, index, keys, i) ==
    IF i > Len(keys) THEN [collection |-> c, spectra |-> index, exc |-> NoExc]
    ELSE organize_step(c, index_entry(index, keys[i][3], keys[i][1], keys[i][2]), keys, i,
                       get_spectrum(c, keys[i][1], keys[i][2], keys[i][3]))

\* returns [collection, spectra, exc]
_organize_spectra_by_object_id(c) ==
    organize_loop(c, EmptyDict, dither_keys(c, sorted(get_dithers(c).val), 1), 1)

\* the part of load_spectra that follows the try statement; c is
\* self.collection, messages the number of message boxes shown so far
organize_and_record(self, filename, c, messages) ==
    IF c = None /\ filename # ""
    THEN [self |-> [self EXCEPT !.collection = c], exc |-> NoExc, messages |-> messages + 1]
    ELSE [self |-> [self EXCEPT
                      !.collection = _organize_spectra_by_object_id(c).collection,
                      !.spectra = _organize_spectra_by_object_id(c).spectra,
                      !._session = IF _organize_spectra_by_object_id(c).exc = NoExc
                                   THEN DictSet(@, "spectra", filename) ELSE @],
          exc |-> _organize_spectra_by_object_id(c).exc,
          messages |-> messages]

\* load_spectra once the file name is known
load_spectra_named(self, filename) ==
    IF filename = "" THEN [self |-> self, exc |-> NoExc, messages |-> 0]
    ELSE IF isfile(filename)
    THEN IF DecontaminatedSpectraCollection(filename).exc # NoExc
         THEN \* except: self.collection = None, and a message box
              organize_and_record(self, filename, None, 1)
         ELSE organize_and_record(self, filename, DecontaminatedSpectraCollection(filename).self, 0)
    ELSE organize_and_record(self, filename, self.collection, 0)

\* chosen is the file name QFileDialog.getOpenFileName returns
load_spectra(self, chosen) ==
    IF ~self._loading_session THEN load_spectra_named(self, chosen)
    ELSE IF "spectra" \notin DOMAIN self._session
    THEN [self |-> self, exc |-> "KeyError", messages |-> 0]
    ELSE load_spectra_named(self, self._session["spectra"])

(***************************************************************************)
(* reader.LocationTable and the other loaders of inspector.Inspector.      *)
(* self is the record of the fields of the Inspector; a loader returns     *)
(* the Inspector it leaves, the exception that escapes it and the number   *)
(* of message boxes it showed.                                             *)
(***************************************************************************)
\* LocationTable.load_hdf5 for each file in turn: the ids under
\* 'Location Objects' are the keys of _info
RECURSIVE load_hdf5_loop(_, _)
load_hdf5_loop(self, filenames) ==
    IF Len(filenames) = 0 THEN self
    ELSE load_hdf5_loop(
             [self EXCEPT !._location_tables = Append(@, Head(filenames)),
                          !._info = @ \cup { LocationFiles[Head(filenames)][i] :
                                               i \in 1..Len(LocationFiles[Head(filenames)]) }],
             Tail(filenames))

load_hdf5_files(self, filenames) ==
    IF \E i \in 1..Len(filenames) : ~is_hdf5(filenames[i])
    THEN [self |-> self, exc |-> "TypeError"]
    ELSE IF \E i \in 1..Len(filenames) : filenames[i] \notin DOMAIN LocationFiles
    THEN \* f['Location Objects'] of a file that has no such group
         [self |-> self, exc |-> "KeyError"]
    ELSE [self |-> load_hdf5_loop(self, filenames), exc |-> NoExc]

\* LocationTable(filename, parent) with the name of a JSON file
LocationTable(filename) ==
    IF filename \notin DOMAIN LocationLists
    THEN \* json.load of a file that is not a list of names
         [self |-> None, exc |-> "JSONDecodeError"]
    ELSE load_hdf5_files([_location_tables |-> << >>, _info |-> {}], LocationLists[filename])

load_location_tables_named(self, filename) ==
    IF isfile(filename)
    THEN IF LocationTable(filename).exc # NoExc
         THEN \* except: self.collection = None, and a message box
              [self |-> [self EXCEPT !.collection = None,
                                     !._session = DictSet(@, "location_tables", filename)],
               exc |-> QMessageBox(<<"int", "str", "str">>), messages |-> 1]
         ELSE [self |-> [self EXCEPT !.location_tables = LocationTable(filename).self,
                                     !._session = DictSet(@, "location_tables", filename)],
               exc |-> NoExc, messages |-> 0]
    ELSE [self |-> self, exc |-> NoExc, messages |-> 0]

load_location_tables(self, chosen) ==
    IF ~self._loading_session THEN load_location_tables_named(self, chosen)
    ELSE IF "location_tables" \notin DOMAIN self._session
    THEN [self |-> self, exc |-> "KeyError", messages |-> 0]
    ELSE IF self._session["location_tables"] = ""
    THEN [self |-> self, exc |-> NoExc, messages |-> 0]
    ELSE load_location_tables_named(self, self._session["location_tables"])

\* the loop of load_exposures over the names of the JSON file
RECURSIVE exposures_loop(_, _)
exposures_loop(exposures_so_far, names) ==
    IF Len(names) = 0 THEN [exposures |-> exposures_so_far, messages |-> 0]
    ELSE IF Head(names) \notin DOMAIN ExposureFiles
    THEN \* not a FITS file: a message box, self.exposures = None, return
         [exposures |-> None, messages |-> 1]
    ELSE exposures_loop(DictSet(exposures_so_far, ExposureFiles[Head(names)].DITHSEQ,
                                ExposureFiles[Head(names)].EXPTIME),
                        Tail(names))

load_exposures_named(self, filename) ==
    IF ~isfile(filename) THEN [self |-> self, exc |-> NoExc, messages |-> 0]
    ELSE IF filename \notin DOMAIN ExposureLists
    THEN [self |-> self, exc |-> "JSONDecodeError", messages |-> 0]
    ELSE LET r == exposures_loop(EmptyDict, ExposureLists[filename])
         IN  IF r.exposures = None
             THEN [self |-> [self EXCEPT !.exposures = None],
                   exc |-> QMessageBox(<<"int", "str", "str">>), messages |-> 1]
             ELSE [self |-> [self EXCEPT !.exposures = r.exposures,
                                         !._session = DictSet(@, "exposures", filename)],
                   exc |-> NoExc, messages |-> 0]

load_exposures(self, chosen) ==
    IF ~self._loading_session THEN load_exposures_named(self, chosen)
    ELSE IF "exposures" \notin DOMAIN self._session
    THEN [self |-> self, exc |-> "KeyError", messages |-> 0]
    ELSE IF self._session["exposures"] = ""
    THEN [self |-> self, exc |-> NoExc, messages |-> 0]
    ELSE load_exposures_named(self, self._session["exposures"])

\* str(d) of a dither d of (1, 2, 3, 4)
str_of_int(d) == <<"1", "2", "3", "4">>[d]

\* np.loadtxt of the file of a sensitivity curve
loadtxt(table) == [r \in 1..Len(table) |-> [i \in 1..Len(table[r]) |-> Num(table[r][i])]]

load_sensitivities_named(self, filename) ==
    IF ~isfile(filename) THEN [self |-> self, exc |-> NoExc, messages |-> 0]
    ELSE IF filename \notin DOMAIN SensitivityFiles
    THEN [self |-> self, exc |-> "JSONDecodeError", messages |-> 0]
    ELSE IF ~SensitivityFiles[filename].dict
    THEN \* raise TypeError('')
         [self |-> self, exc |-> "TypeError", messages |-> 0]
    ELSE LET sens == SensitivityFiles[filename].entries
         IN  [self |-> [self EXCEPT
                          !.sensitivities =
                              [d \in {1, 2, 3, 4} |->
                                  IF \E k \in DOMAIN sens : k = str_of_int(d)
                                  THEN loadtxt(sens[str_of_int(d)]) ELSE None],
                          !._session = DictSet(@, "grism_sensitivities", filename)],
              exc |-> NoExc, messages |-> 0]

load_sensitivities(self, chosen) ==
    IF ~self._loading_session THEN load_sensitivities_named(self, chosen)
    ELSE IF "grism_sensitivities" \notin DOMAIN self._session
    THEN [self |-> self, exc |-> "KeyError", messages |-> 0]
    ELSE IF self._session["grism_sensitivities"] = ""
    THEN [self |-> self, exc |-> NoExc, messages |-> 0]
    ELSE load_sensitivities_named(self, self._session["grism_sensitivities"])

\* load_session: the four loaders in turn, each on the Inspector the one
\* before it left; an exception that escapes a loader escapes load_session.
\* r is what the loader before returned, messages the message boxes shown
\* before it
session_loaded(messages, r) ==
    IF r.exc # NoExc THEN [r EXCEPT !.messages = @ + messages]
    ELSE [self |-> [r.self EXCEPT !._loading_session = FALSE], exc |-> NoExc,
          messages |-> messages + r.messages]

session_location_tables_loaded(messages, r) ==
    IF r.exc # NoExc THEN [r EXCEPT !.messages = @ + messages]
    ELSE session_loaded(messages + r.messages, load_sensitivities(r.self, ""))

session_spectra_loaded(messages, r) ==
    IF r.exc # NoExc THEN [r EXCEPT !.messages = @ + messages]
    ELSE session_location_tables_loaded(messages + r.messages, load_location_tables(r.self, ""))

session_exposures_loaded(r) ==
    IF r.exc # NoExc THEN r
    ELSE session_spectra_loaded(r.messages, load_spectra(r.self, ""))

load_session(self, chosen) ==
    IF chosen = "" THEN [self |-> self, exc |-> NoExc, messages |-> 0]
    ELSE IF chosen \notin DOMAIN Sessions
    THEN \* open or json.load of a file that is not a session
         [self |-> self, exc |-> IF isfile(chosen) THEN "JSONDecodeError" ELSE "FileNotFoundError",
          messages |-> 0]
    ELSE session_exposures_loaded(
             load_exposures([self EXCEPT !._session = Sessions[chosen],
                                         !._loading_session = TRUE], ""))

(***************************************************************************)
(* State.                                                                  *)
(***************************************************************************)
VARIABLES
    _field_id,                 \* self._field_id
    _exposure_time,            \* self._exposure_time
    _exposure_id,              \* self._exposure_id
    _exposure_grism_position,  \* self._exposure_grism_position
    _hdf5_spectra,             \* self._hdf5_spectra
    _hdf5_models,              \* self._hdf5_models
    gen,                       \* the generator object made by get_spectra
    last,                      \* the last call: [op, args, val, exc]
    loaded,                    \* the HDF5 files whose load returned normally
    ncalls,                    \* calls of get_spectrum so far
    nloads,                    \* calls of load so far
    canvas0,                   \* compositor runs: the canvas before any contaminant
    canvas,                    \* compositor runs: total_contamination
    contamA,                   \* compositor runs: a contaminant_flux
    contamB,                   \* compositor runs: another contaminant_flux
    applied,                   \* compositor runs: the contaminants applied, in order
    collection,                \* Inspector.collection: None or the fields of a store
    spectra,                   \* Inspector.spectra: None or {object_id: {dither: {detector: spectrum}}}
    sensitivities,             \* Inspector.sensitivities: {dither: None or (wavelengths, values)}
    exposures,                 \* Inspector.exposures: None or {dither: EXPTIME of detector 1}
    _session,                  \* Inspector._session
    _loading_session,          \* Inspector._loading_session
    location_tables            \* Inspector.location_tables: None or a LocationTable

storeVars == <<_field_id, _exposure_time, _exposure_id, _exposure_grism_position,
               _hdf5_spectra, _hdf5_models>>

compVars == <<canvas0, canvas, contamA, contamB, applied>>

appVars ==
    <<collection, spectra, sensitivities, exposures, _session, _loading_session,
      location_tables>>

vars == <<storeVars, gen, last, loaded, ncalls, nloads, compVars, appVars>>

Self ==
    [_field_id |-> _field_id,
     _exposure_time |-> _exposure_time,
     _exposure_id |-> _exposure_id,
     _exposure_grism_position |-> _exposure_grism_position,
     _hdf5_spectra |-> _hdf5_spectra,
     _hdf5_models |-> _hdf5_models]

SetSelf(self) ==
    /\ _field_id' = self._field_id
    /\ _exposure_time' = self._exposure_time
    /\ _exposure_id' = self._exposure_id
    /\ _exposure_grism_position' = self._exposure_grism_position
    /\ _hdf5_spectra' = self._hdf5_spectra
    /\ _hdf5_models' = self._hdf5_models

Call(op, args, val, exc) == [op |-> op, args |-> args, val |-> val, exc |-> exc]

NoGen == [state |-> "none", dither |-> 0, detector |-> 0, ids |-> << >>]

\* a generator that has returned or raised
Finished == [state |-> "done", dither |-> 0, detector |-> 0, ids |-> << >>]

\* the arguments the callers are modelled to pass
QDithers == {1, 2}

\* (dither, detector) pairs
QDetectors == {<<1, 1>>, <<1, 2>>, <<2, 1>>}

\* (dither, detector, object_id) triples of get_spectrum
QSpectra ==
    {<<1, 1, IntId(1)>>, <<1, 1, StrId(2)>>, <<1, 1, IntId(3)>>,
     <<1, 2, IntId(1)>>, <<2, 1, StrId(1)>>, <<2, 1, StrId(9)>>}

\* (dither, detector, object_id) triples of get_model
QModels == {<<1, 1, IntId(1)>>, <<1, 1, StrId(2)>>, <<2, 1, StrId(9)>>}

QOrders == {0, 1, 2}

InitStore ==
    /\ _field_id = __init__._field_id
    /\ _exposure_time = __init__._exposure_time
    /\ _exposure_id = __init__._exposure_id
    /\ _exposure_grism_position = __init__._exposure_grism_position
    /\ _hdf5_spectra = __init__._hdf5_spectra
    /\ _hdf5_models = __init__._hdf5_models
    /\ gen = NoGen
    /\ last = Call("__init__", << >>, None, NoExc)
    /\ loaded = {}
    /\ ncalls = 0
    /\ nloads = 0

\* the compositor variables of a run of the store
NoCompositor ==
    /\ canvas0 = << <<0, 0>>, zeros_like(1, 1) >>
    /\ canvas = canvas0
    /\ contamA = << <<0, 0>>, zeros_like(1, 1) >>
    /\ contamB = contamA
    /\ applied = << >>

\* Inspector.__init__
NoInspector ==
    /\ collection = None
    /\ spectra = None
    /\ sensitivities = [i \in {1, 2, 3, 4} |-> None]
    /\ exposures = None
    /\ _session = EmptyDict
    /\ _loading_session = FALSE
    /\ location_tables = None

Init == InitStore /\ NoCompositor /\ NoInspector

(***************************************************************************)
(* Operations of the store.                                                *)
(***************************************************************************)
\* the effect of a call that returned or raised as r = [self, val, exc]
Returned(op, args, r) ==
    /\ SetSelf(r.self)
    /\ last' = Call(op, args, r.val, r.exc)

Loaded(filename, r) ==
    /\ SetSelf(r.self)
    /\ last' = Call("load", <<filename>>, None, r.exc)
    /\ loaded' = loaded \cup merged(filename, r)

Load(filename) ==
    /\ nloads < MaxLoads
    /\ Loaded(filename, load(Self, filename))
    /\ nloads' = nloads + 1
    /\ UNCHANGED <<gen, ncalls, compVars, appVars>>

Query(op, args, r) ==
    /\ last' = Call(op, args, r.val, r.exc)
    /\ UNCHANGED <<storeVars, gen, loaded, ncalls, nloads, compVars, appVars>>

FieldId == Query("field_id", << >>, Return(_field_id))

GetDithers == Query("get_dithers", << >>, get_dithers(Self))

GetDetectors(dither) == Query("get_detectors", <<dither>>, get_detectors(Self, dither))

GetObjectIds(dither, detector) ==
    Query("get_object_ids", <<dither, detector>>, get_object_ids(Self, dither, detector))

GetExposureId(dither) == Query("get_exposure_id", <<dither>>, get_exposure_id(Self, dither))

GetExposureTime(dither) == Query("get_exposure_time", <<dither>>, get_exposure_time(Self, dither))

GetGrismPosition(dither) ==
    Query("get_grism_position", <<dither>>, get_grism_position(Self, dither))

GetModel(dither, detector, object_id, order) ==
    Query("get_model", <<dither, detector, object_id, order>>,
          get_model(Self, dither, detector, object_id, order))

GetSpectrum(dither, detector, object_id) ==
    /\ ncalls < MaxCalls
    /\ Returned("get_spectrum", <<dither, detector, object_id>>,
                get_spectrum(Self, dither, detector, object_id))
    /\ ncalls' = ncalls + 1
    /\ UNCHANGED <<gen, loaded, nloads, compVars, appVars>>

\* get_spectra(dither, detector): makes the generator; nothing of its body runs
GetSpectra(dither, detector) ==
    /\ gen' = [state |-> "created", dither |-> dither, detector |-> detector, ids |-> << >>]
    /\ last' = Call("get_spectra", <<dither, detector>>, None, NoExc)
    /\ UNCHANGED <<storeVars, loaded, ncalls, nloads, compVars, appVars>>

\* next() on the generator: runs its body up to the next yield
GenNext ==
    /\ gen.state \in {"created", "running"}
    /\ ncalls < MaxCalls
    /\ LET args == <<gen.dither, gen.detector>>
           first == get_object_ids(Self, gen.dither, gen.detector)
           ids == IF gen.state = "created" THEN first.val ELSE gen.ids
       IN  IF gen.state = "created" /\ first.exc # NoExc
           THEN /\ gen' = Finished
                /\ last' = Call("next", args, None, first.exc)
                /\ UNCHANGED <<storeVars, ncalls>>
           ELSE IF Len(ids) = 0
           THEN /\ gen' = Finished
                /\ last' = Call("next", args, None, "StopIteration")
                /\ UNCHANGED <<storeVars, ncalls>>
           ELSE /\ Returned("next", args,
                            get_spectrum(Self, gen.dither, gen.detector, str(Head(ids))))
                /\ gen' = IF last'.exc # NoExc
                          THEN Finished
                          ELSE [gen EXCEPT !.state = "running", !.ids = Tail(ids)]
                /\ ncalls' = ncalls + 1
    /\ UNCHANGED <<loaded, nloads, compVars, appVars>>

Next ==
    \/ \E filename \in FileNames : Load(filename)
    \/ FieldId
    \/ GetDithers
    \/ \E dither \in QDithers : GetDetectors(dither)
    \/ \E q \in QDetectors : GetObjectIds(q[1], q[2])
    \/ \E dither \in QDithers : GetExposureId(dither)
    \/ \E dither \in QDithers : GetExposureTime(dither)
    \/ \E dither \in QDithers : GetGrismPosition(dither)
    \/ \E q \in QModels, order \in QOrders : GetModel(q[1], q[2], q[3], order)
    \/ \E q \in QSpectra : GetSpectrum(q[1], q[2], q[3])

Spec == Init /\ [][Next]_vars

\* the store with the generators of get_spectra
NextSpectra ==
    \/ \E filename \in FileNames : Load(filename)
    \/ \E q \in QSpectra : GetSpectrum(q[1], q[2], q[3])
    \/ \E q \in QDetectors : GetSpectra(q[1], q[2])
    \/ GenNext

SpecSpectra == Init /\ [][NextSpectra]_vars

(***************************************************************************)
(* Runs of the compositor alone: a canvas and contaminants drawn from      *)
(* bounded sets, apply_contaminant applied to them.                        *)
(***************************************************************************)
Sizes == 1..MaxSize

\* an array whose pixels all differ: 100, 200, ...
canvas_ramp(h, w) ==
    [h |-> h, w |-> w, px |-> [p \in (0..(h-1)) \X (0..(w-1)) |-> 100 * (1 + p[1] * w + p[2])]]

Canvases ==
    { << off, a >> : off \in {<<0, 0>>, <<1, -2>>},
                     a \in UNION { {zeros_like(h, w), canvas_ramp(h, w)} : h \in Sizes, w \in Sizes } }

\* contaminants at every displacement from the canvas that can overlap it,
\* touch it or miss it
Displacements == (-(MaxSize + 1))..(MaxSize + 1)

ContaminantsAt(off) ==
    { << <<off[1] + dx, off[2] + dy>>, ramp(h, w) >> :
         dx \in Displacements, dy \in Displacements, h \in Sizes, w \in Sizes }

InitApply ==
    /\ InitStore
    /\ NoInspector
    /\ \/ /\ canvas0 \in Canvases
          /\ contamA \in ContaminantsAt(canvas0[1])
       \/ \* canvas box (0,0,4,4) of zeros, contaminant box (2,2,4,4) of ones
          /\ canvas0 = << <<0, 0>>, zeros_like(4, 4) >>
          /\ contamA = << <<2, 2>>, ones(4, 4) >>
    /\ contamB = << <<0, 0>>, zeros_like(1, 1) >>
    /\ canvas = canvas0
    /\ applied = << >>

Applied(name, r) ==
    /\ canvas' = <<canvas[1], r.canvas>>
    /\ last' = Call("apply_contaminant", <<name>>, None, r.exc)

Apply(name, contaminant_flux) ==
    /\ Applied(name, apply_contaminant(contaminant_flux, canvas))
    /\ applied' = Append(applied, name)
    /\ UNCHANGED <<storeVars, gen, loaded, ncalls, nloads, canvas0, contamA, contamB, appVars>>

ApplyA ==
    /\ "A" \notin {applied[i] : i \in 1..Len(applied)}
    /\ Apply("A", contamA)

ApplyB ==
    /\ "B" \notin {applied[i] : i \in 1..Len(applied)}
    /\ Apply("B", contamB)

NextApply == ApplyA

SpecApply == InitApply /\ [][NextApply]_vars

CommuteSizes == 1..(MaxSize - 1)

CommuteOffsets == (-MaxOff)..MaxOff

CommuteContaminants ==
    { << <<x, y>>, ramp(h, w) >> :
         x \in CommuteOffsets, y \in CommuteOffsets, h \in CommuteSizes, w \in CommuteSizes }

InitCommute ==
    /\ InitStore
    /\ NoInspector
    /\ canvas0 \in { << <<0, 0>>, canvas_ramp(h, MaxSize - 1) >> : h \in {1, MaxSize - 1} }
    /\ contamA \in CommuteContaminants
    /\ contamB \in CommuteContaminants
    /\ canvas = canvas0
    /\ applied = << >>

NextCommute == ApplyA \/ ApplyB

SpecCommute == InitCommute /\ [][NextCommute]_vars

(***************************************************************************)
(* Runs of the Inspector: load_spectra with the file name the user picks.  *)
(***************************************************************************)
\* the names QFileDialog.getOpenFileName can return: a file, a name that is
\* not a file, or '' when the dialog is cancelled
DialogFileNames == FileNames \cup {"", "missing.json"}

InspectorSelf ==
    [collection |-> collection, spectra |-> spectra,
     _session |-> _session, _loading_session |-> _loading_session]

LoadedSpectra(chosen, r) ==
    /\ collection' = r.self.collection
    /\ spectra' = r.self.spectra
    /\ _session' = r.self._session
    /\ _loading_session' = r.self._loading_session
    /\ last' = Call("load_spectra", <<chosen>>, r.messages, r.exc)

LoadSpectra(chosen) ==
    /\ nloads < MaxLoads
    /\ LoadedSpectra(chosen, load_spectra(InspectorSelf, chosen))
    /\ nloads' = nloads + 1
    /\ UNCHANGED <<storeVars, gen, loaded, ncalls, compVars, sensitivities, exposures,
                   location_tables>>

NextInspector == \E chosen \in DialogFileNames : LoadSpectra(chosen)

SpecInspector == Init /\ [][NextInspector]_vars

(***************************************************************************)
(* Runs of the calibrator alone: the sensitivity curves and exposure times *)
(* of the Inspector drawn from bounded sets, _calibrate_spectrum applied   *)
(* to bounded signals and wavelength grids.                                *)
(***************************************************************************)
Ints(seq) == [i \in 1..Len(seq) |-> Num(seq[i])]

\* the constant values of the flat sensitivity curves and of the flat signals
FlatValues == {1, 2, -3}

SignalValues == {0, 3, -2}

Steps == {1, 2, -1}

\* sensitivity tables (wavelengths, values): flat ones, and one with a zero
Curves ==
    { <<Ints(<<5, 20>>), Ints(<<k, k>>)>> : k \in FlatValues }
       \cup { <<Ints(<<5, 11, 20>>), Ints(<<2, 0, 4>>)>> }

\* the wavelength grid start, start + step, ... of n samples
Grid(start, step, n) == [i \in 1..n |-> Num(start + (i - 1) * step)]

Grids ==
    { Grid(10, step, n) : step \in Steps, n \in 1..MaxLen }
       \cup { Ints(<<10, 11, 13>>), Ints(<<10, 10>>) }

Signals ==
    { [i \in 1..n |-> Num(v)] : v \in SignalValues, n \in 1..MaxLen } \cup { Ints(<<1, 2>>) }

InitCalibrate ==
    /\ InitStore
    /\ NoCompositor
    /\ collection = None
    /\ spectra = None
    /\ _session = EmptyDict
    /\ _loading_session = FALSE
    /\ location_tables = None
    /\ sensitivities \in { [i \in {1, 2, 3, 4} |-> IF i = 1 THEN c ELSE None] :
                              c \in Curves \cup {None} }
    /\ exposures \in {None} \cup { [i \in {1, 2, 3, 4} |-> t] : t \in {0, 1, 2} }

CalibrateSpectrum(dither, spec_1d, wavelengths) ==
    /\ last' = Call("_calibrate_spectrum", <<dither, spec_1d, wavelengths>>,
                    _calibrate_spectrum([sensitivities |-> sensitivities, exposures |-> exposures],
                                        dither, spec_1d, wavelengths).val,
                    _calibrate_spectrum([sensitivities |-> sensitivities, exposures |-> exposures],
                                        dither, spec_1d, wavelengths).exc)
    /\ UNCHANGED <<storeVars, gen, loaded, ncalls, nloads, compVars, appVars>>

NextCalibrate ==
    \E dither \in {1, 2}, spec_1d \in Signals, wavelengths \in Grids :
       CalibrateSpectrum(dither, spec_1d, wavelengths)

SpecCalibrate == InitCalibrate /\ [][NextCalibrate]_vars

(***************************************************************************)
(* Runs of the plots: the Inspector loads spectra, _plot is called for a   *)
(* spectrum, and the window of a plot is computed for wavelength grids     *)
(* and series drawn from bounded sets.                                     *)
(***************************************************************************)
WindowValues == {12000, min_wav, max_wav, 19000}

\* the grids of 1 to MaxLen wavelengths, increasing or decreasing
WindowGrids ==
    { g \in UNION { [1..n -> WindowValues] : n \in 1..MaxLen } :
         \/ \A i \in 1..(Len(g) - 1) : g[i] < g[i + 1]
         \/ \A i \in 1..(Len(g) - 1) : g[i] > g[i + 1] }

\* the files the spectra to plot are loaded from
PlotFileNames == {"A.h5", "C.h5", ""}

\* PlotSelector.series: no series, or S_ORIG
SeriesValues == {0, 1}

Plot(dither, detector, object_id, data_series) ==
    /\ ncalls < MaxCalls
    /\ LET r == _plot([_object_id |-> object_id, _data_series |-> data_series],
                      collection, dither, detector)
       IN  /\ collection' = r.collection
           /\ last' = Call("_plot", <<dither, detector, object_id, data_series>>, r.val, r.exc)
    /\ ncalls' = ncalls + 1
    /\ UNCHANGED <<storeVars, gen, loaded, nloads, compVars, spectra, sensitivities,
                   exposures, _session, _loading_session, location_tables>>

\* the slices of _plot for a grid and a y_values of n samples
Slice(wavelengths, n) ==
    /\ last' = Call("sliced", <<wavelengths, n>>, sliced(Ints(wavelengths), n), NoExc)
    /\ UNCHANGED <<storeVars, gen, loaded, ncalls, nloads, compVars, appVars>>

NextPlot ==
    \/ \E chosen \in PlotFileNames : LoadSpectra(chosen)
    \/ \E q \in QSpectra, data_series \in SeriesValues : Plot(q[1], q[2], q[3], data_series)
    \/ \E wavelengths \in WindowGrids, n \in 1..MaxLen : Slice(wavelengths, n)

SpecPlot == Init /\ [][NextPlot]_vars

(***************************************************************************)
(* Runs of a session: the user loads exposures, spectra, location tables   *)
(* and sensitivity curves from the menu, or all of them from a saved       *)
(* session, and the calibrator is applied to a spectrum.                   *)
(***************************************************************************)
Inspector ==
    [collection |-> collection, spectra |-> spectra, location_tables |-> location_tables,
     sensitivities |-> sensitivities, exposures |-> exposures,
     _session |-> _session, _loading_session |-> _loading_session]

\* the loader op, called with the Inspector of the state, returned r
LoaderReturned(op, chosen, r) ==
    /\ nloads < MaxLoads
    /\ collection' = r.self.collection
    /\ spectra' = r.self.spectra
    /\ location_tables' = r.self.location_tables
    /\ sensitivities' = r.self.sensitivities
    /\ exposures' = r.self.exposures
    /\ _session' = r.self._session
    /\ _loading_session' = r.self._loading_session
    /\ last' = Call(op, <<chosen>>, r.messages, r.exc)
    /\ nloads' = nloads + 1
    /\ UNCHANGED <<storeVars, gen, loaded, ncalls, compVars>>

LoadExposures(chosen) == LoaderReturned("load_exposures", chosen, load_exposures(Inspector, chosen))

LoadLocationTables(chosen) ==
    LoaderReturned("load_location_tables", chosen, load_location_tables(Inspector, chosen))

LoadSensitivities(chosen) ==
    LoaderReturned("load_sensitivities", chosen, load_sensitivities(Inspector, chosen))

LoadSession(chosen) == LoaderReturned("load_session", chosen, load_session(Inspector, chosen))

\* the names the dialogs of a session return
ExposureNames == {"exp.json", "expbad.json", ""}

SpectraNames == {"A.h5", "C.h5", "X.h5", ""}

LocationNames == {"loc.json", "loc2.json", "locbad.json", ""}

SensitivityNames == {"sens.json", "senslist.json", ""}

SessionNames == (DOMAIN Sessions) \cup {""}

\* the spectra and grids the calibrator is applied to in a session
SessionSignals == { Ints(<<3, 3>>), Ints(<<1, 2, 4>>) }

SessionGrids == { Grid(10, 1, 2), Grid(10, 2, 3) }

NextSession ==
    \/ \E chosen \in ExposureNames : LoadExposures(chosen)
    \/ \E chosen \in SpectraNames : LoadSpectra(chosen)
    \/ \E chosen \in LocationNames : LoadLocationTables(chosen)
    \/ \E chosen \in SensitivityNames : LoadSensitivities(chosen)
    \/ \E chosen \in SessionNames : LoadSession(chosen)
    \/ \E dither \in {1, 2}, spec_1d \in SessionSignals, wavelengths \in SessionGrids :
          CalibrateSpectrum(dither, spec_1d, wavelengths)

SpecSession == Init /\ [][NextSession]_vars

(***************************************************************************)
(* Properties.                                                             *)
(*                                                                         *)
(* Every step that is not a stuttering step sets last, so a step with      *)
(* last'.op = "get_model" is a step of GetModel, and so on.                *)
(***************************************************************************)
\* the value of the array at detector coordinate (x, y), 0 outside its box
ValueAt(flux, x, y) ==
    LET r == y - flux[1][2]
        c == x - flux[1][1]
    IN  IF r >= 0 /\ r < flux[2].h /\ c >= 0 /\ c < flux[2].w THEN flux[2].px[<<r, c>>] ELSE 0

\* the detector coordinates covered by the array
PixelsOf(flux) ==
    { <<flux[1][1] + c, flux[1][2] + r>> : r \in 0..(flux[2].h - 1), c \in 0..(flux[2].w - 1) }

HasSpectrum(self, dither, detector, object_id) ==
    /\ dither \in DOMAIN self._hdf5_spectra
    /\ detector \in DOMAIN self._hdf5_spectra[dither]
    /\ \E i \in 1..Len(self._hdf5_spectra[dither][detector]) :
          self._hdf5_spectra[dither][detector][i].k = str(object_id)

SpectrumOf(self, dither, detector, object_id) ==
    LET items == self._hdf5_spectra[dither][detector]
    IN  items[CHOOSE i \in 1..Len(items) : items[i].k = str(object_id)].v

HasModel(self, dither, detector, n, order) ==
    /\ dither \in DOMAIN self._hdf5_models
    /\ detector \in DOMAIN self._hdf5_models[dither]
    /\ StrId(n) \in DOMAIN self._hdf5_models[dither][detector]
    /\ order \in DOMAIN self._hdf5_models[dither][detector][StrId(n)]

\* the sum over the contaminants of order 1 and 2 that have a model stored of
\* the model's value at detector coordinate (x, y)
RECURSIVE StoredContamination(_, _, _, _, _, _, _)
StoredContamination(self, dither, detector, contaminants, i, x, y) ==
    IF i > Len(contaminants) THEN 0
    ELSE LET c == contaminants[i]
             here == IF c.order \in {1, 2} /\ HasModel(self, dither, detector, c.id, c.order)
                     THEN LET m == self._hdf5_models[dither][detector][StrId(c.id)][c.order]
                          IN  ValueAt(<< <<m.x_offset, m.y_offset>>, m.pixels >>, x, y)
                     ELSE 0
         IN  here + StoredContamination(self, dither, detector, contaminants, i + 1, x, y)

\* C1: a second get_spectrum call for a key returns a Spectrum whose
\* contamination array is identical to the one the call before it returned
C1_GetSpectrumIdempotent ==
    [][ ( /\ last.op = "get_spectrum" /\ last.exc = NoExc /\ last.val # None
          /\ last'.op = "get_spectrum" /\ last'.args = last.args
          /\ ncalls' = ncalls + 1 )
        => ( /\ last'.exc = NoExc
             /\ last'.val.contamination = last.val.contamination ) ]_vars

\* C2: get_spectrum on a loaded spectrum one of whose contaminants of order 1
\* or 2 has no model stored does not raise, returns the Spectrum, and adds to
\* the contamination exactly the models of the contaminants that are stored
C2_MissingModelSkipped ==
    [][ ( /\ last'.op = "get_spectrum"
          /\ ncalls' = ncalls + 1
          /\ HasSpectrum(Self, last'.args[1], last'.args[2], last'.args[3])
          /\ LET spec == SpectrumOf(Self, last'.args[1], last'.args[2], last'.args[3])
             IN  \E i \in 1..Len(spec.contaminants) :
                    /\ spec.contaminants[i].order \in {1, 2}
                    /\ ~HasModel(Self, last'.args[1], last'.args[2],
                                 spec.contaminants[i].id, spec.contaminants[i].order) )
        => ( /\ last'.exc = NoExc
             /\ last'.val # None
             /\ LET spec == SpectrumOf(Self, last'.args[1], last'.args[2], last'.args[3])
                IN  \A p \in DOMAIN spec.contamination.px :
                       last'.val.contamination.px[p] =
                          spec.contamination.px[p]
                          + StoredContamination(Self, last'.args[1], last'.args[2],
                                                spec.contaminants, 1,
                                                spec.x_offset + p[2], spec.y_offset + p[1]) ) ]_vars

\* C3: right after a successful load of a file, get_model returns, for every
\* object and every order the file holds a model dataset for, that model
C3_EveryModelIndexed ==
    (last.op = "load" /\ last.exc = NoExc /\ is_hdf5(last.args[1]))
    => LET f == h5py_File(last.args[1])
       IN  \A i \in 1..Len(f.models) : \A j \in 1..Len(f.models[i].datasets) :
              LET ds == f.models[i].datasets[j]
                  r == get_model(Self, f.Dither, f.Detector, f.models[i].name, ds.order)
              IN  /\ r.exc = NoExc
                  /\ r.val # None
                  /\ r.val.pixels = ds.pixels
                  /\ r.val.x_offset = ds.x_offset
                  /\ r.val.y_offset = ds.y_offset

\* what the read operations of the store return
Observations(self) ==
    [field_id |-> self._field_id,
     dithers |-> get_dithers(self),
     detectors |-> [d \in 1..4 |-> get_detectors(self, d)],
     object_ids |-> [q \in QDetectors |-> get_object_ids(self, q[1], q[2])],
     spectrum |-> [q \in QSpectra |->
                     [x \in {"val", "exc"} |-> get_spectrum(self, q[1], q[2], q[3])[x]]],
     model |-> [q \in QModels \X {1, 2} |-> get_model(self, q[1][1], q[1][2], q[1][3], q[2])],
     exposure_time |-> [d \in 1..4 |-> get_exposure_time(self, d)],
     grism_position |-> [d \in 1..4 |-> get_grism_position(self, d)],
     exposure_id |-> [d \in 1..4 |-> get_exposure_id(self, d)]]

\* C4: once a file has been loaded, a load of a file with another field id
\* fails and every read operation returns what it returned before that load
C4_FieldMismatchKeepsStore ==
    [][ ( /\ last'.op = "load"
          /\ nloads' = nloads + 1
          /\ loaded # {}
          /\ is_hdf5(last'.args[1])
          /\ h5py_File(last'.args[1]).FieldID # _field_id )
        => ( /\ last'.exc # NoExc
             /\ Observations(Self)' = Observations(Self) ) ]_vars

\* C5: get_spectrum, and get_model with order # 0, for a key the store does
\* not hold return None, raise nothing and leave the store unchanged
C5_AbsentKeyIsNone ==
    [][ /\ ( /\ last'.op = "get_spectrum"
             /\ ~HasSpectrum(Self, last'.args[1], last'.args[2], last'.args[3]) )
           => ( /\ last'.exc = NoExc
                /\ last'.val = None
                /\ storeVars' = storeVars )
        /\ ( /\ last'.op = "get_model"
             /\ last'.args[4] # 0
             /\ ~HasModel(Self, last'.args[1], last'.args[2], last'.args[3].n, last'.args[4]) )
           => ( /\ last'.exc = NoExc
                /\ last'.val = None
                /\ storeVars' = storeVars ) ]_vars

\* C5 witness: get_model returned None for an order the object has no model
\* of, in a dither and detector that hold models
C5_Witness ==
    /\ last.op = "get_model"
    /\ last.args[4] # 0
    /\ last.val = None
    /\ last.exc = NoExc
    /\ last.args[1] \in DOMAIN _hdf5_models
    /\ last.args[2] \in DOMAIN _hdf5_models[last.args[1]]
    /\ str(last.args[3]) \in DOMAIN _hdf5_models[last.args[1]][last.args[2]]

\* C6: get_model with order 0 raises ValueError for every dither, detector
\* and object id and leaves the store unchanged
C6_OrderZeroInvalid ==
    [][ (last'.op = "get_model" /\ last'.args[4] = 0)
        => ( /\ last'.exc = "ValueError"
             /\ storeVars' = storeVars ) ]_vars

\* C6 witness: get_model was called with order 0 for an object that has a
\* model stored
C6_Witness ==
    /\ last.op = "get_model"
    /\ last.args[4] = 0
    /\ last.exc = "ValueError"
    /\ \E order \in {1, 2} :
          HasModel(Self, last.args[1], last.args[2], last.args[3].n, order)

\* C7: after apply_contaminant every canvas pixel equals its previous value
\* plus the contaminant's value at the same detector coordinate where the
\* contaminant covers it, and its previous value elsewhere; the canvas
\* (0,0,4,4) of zeros with the contaminant (2,2,4,4) of ones ends as zeros
\* except rows 2-3, columns 2-3, which are 1
C7_PixelwiseAdd ==
    (applied = <<"A">>)
    => /\ last.exc = NoExc
       /\ canvas[1] = canvas0[1]
       /\ DOMAIN canvas[2].px = DOMAIN canvas0[2].px
       /\ \A p \in DOMAIN canvas0[2].px :
             canvas[2].px[p] =
                canvas0[2].px[p] + ValueAt(contamA, canvas0[1][1] + p[2], canvas0[1][2] + p[1])
       /\ ( /\ canvas0 = << <<0, 0>>, zeros_like(4, 4) >>
            /\ contamA = << <<2, 2>>, ones(4, 4) >> )
          => canvas[2].px = [p \in (0..3) \X (0..3) |->
                               IF p[1] \in 2..3 /\ p[2] \in 2..3 THEN 1 ELSE 0]

\* C7 witness: a contaminant lying fully inside a larger canvas has been applied
C7_Witness ==
    /\ applied = <<"A">>
    /\ PixelsOf(contamA) \subseteq PixelsOf(canvas0)
    /\ PixelsOf(contamA) # PixelsOf(canvas0)
    /\ \E p \in DOMAIN canvas[2].px : canvas[2].px[p] # canvas0[2].px[p]

\* C8: apply_contaminant with a contaminant that shares no pixel with the
\* canvas leaves every canvas pixel unchanged and raises nothing
C8_DisjointUnchanged ==
    (applied = <<"A">> /\ PixelsOf(contamA) \cap PixelsOf(canvas0) = {})
    => (canvas = canvas0 /\ last.exc = NoExc)

\* C8 witness: a contaminant that touches the canvas only at its top right
\* corner has been applied
C8_Witness ==
    /\ applied = <<"A">>
    /\ contamA[1][1] = canvas0[1][1] + canvas0[2].w
    /\ contamA[1][2] = canvas0[1][2] + canvas0[2].h
    /\ canvas0[2] = canvas_ramp(canvas0[2].h, canvas0[2].w)

\* a spectrum whose contamination is the canvas, in a store that holds
\* contaminant A as object 1 and contaminant B as object 2
CanvasSpectrum(contaminants) ==
    [id |-> StrId(3), x_offset |-> canvas0[1][1], y_offset |-> canvas0[1][2],
     science |-> <<canvas0[2].h, canvas0[2].w>>, variance |-> <<canvas0[2].h, canvas0[2].w>>,
     mask |-> <<canvas0[2].h, canvas0[2].w>>, contaminants |-> contaminants,
     contamination |-> canvas0[2]]

ContaminantModel(n, flux) ==
    [id |-> StrId(n), order |-> 1, pixels |-> flux[2], x_offset |-> flux[1][1], y_offset |-> flux[1][2]]

ContaminantStore ==
    [__init__ EXCEPT !._hdf5_models =
        1 :> (1 :> (StrId(1) :> (1 :> ContaminantModel(1, contamA))
                    @@ StrId(2) :> (1 :> ContaminantModel(2, contamB))))]

\* C9: applying contaminant A then B leaves the canvas as applying B then A
\* does, and the contamination computed for a contaminants list (A, B)
\* equals the one computed for the list (B, A)
C9_Commutes ==
    /\ (applied = <<"A", "B">>)
       => canvas[2] = apply_contaminant(contamA,
                         <<canvas0[1], apply_contaminant(contamB, canvas0).canvas>>).canvas
    /\ (applied = <<"B", "A">>)
       => canvas[2] = apply_contaminant(contamB,
                         <<canvas0[1], apply_contaminant(contamA, canvas0).canvas>>).canvas
    /\ (Len(applied) = 2)
       => /\ _compute_total_contamination(ContaminantStore, 1, 1,
                CanvasSpectrum(<<Contaminant(1, 1), Contaminant(2, 1)>>))
             = [canvas |-> canvas[2], exc |-> NoExc]
          /\ _compute_total_contamination(ContaminantStore, 1, 1,
                CanvasSpectrum(<<Contaminant(2, 1), Contaminant(1, 1)>>))
             = [canvas |-> canvas[2], exc |-> NoExc]

\* C9 witness: A then B have been applied and some canvas pixel is covered
\* by both
C9_Witness ==
    /\ applied = <<"A", "B">>
    /\ PixelsOf(contamA) \cap PixelsOf(contamB) \cap PixelsOf(canvas0) # {}
    /\ contamA # contamB

\* C10: every dither get_dithers returns, and every detector get_detectors
\* returns for it, is the dither and detector of a file whose load returned
\* normally
C10_OnlyLoadedKeys ==
    \A d \in get_dithers(Self).val :
       /\ \E f \in loaded : h5py_File(f).Dither = d
       /\ \A det \in get_detectors(Self, d).val :
             \E f \in loaded : h5py_File(f).Dither = d /\ h5py_File(f).Detector = det

\* C11: get_dithers on a store no container was loaded into, get_detectors
\* for a dither no loaded container has, and get_object_ids for a dither and
\* detector no loaded container has, raise nothing and return an empty result
C11_EnumeratorsNoError ==
    [][ /\ (last'.op = "get_dithers" /\ loaded = {})
           => (last'.exc = NoExc /\ last'.val = {})
        /\ ( /\ last'.op = "get_detectors"
             /\ \A f \in loaded : h5py_File(f).Dither # last'.args[1] )
           => (last'.exc = NoExc /\ last'.val = {})
        /\ ( /\ last'.op = "get_object_ids"
             /\ \A f \in loaded : ~( /\ h5py_File(f).Dither = last'.args[1]
                                     /\ h5py_File(f).Detector = last'.args[2] ) )
           => (last'.exc = NoExc /\ last'.val = << >>) ]_vars

\* the attribute of the file that the metadata accessor op returns
MetadataOf(op, f) ==
    CASE op = "get_exposure_time" -> f.exp_time
      [] op = "get_grism_position" -> f.GrismPosition
      [] op = "get_exposure_id" -> f.ExposureID

\* C12: get_exposure_time, get_grism_position and get_exposure_id raise for a
\* dither of which no container was loaded successfully, and for any other
\* dither return the value of a successfully loaded container of that dither
C12_MetadataOnlyOfLoaded ==
    [][ (last'.op \in {"get_exposure_time", "get_grism_position", "get_exposure_id"})
        => IF \A f \in loaded : h5py_File(f).Dither # last'.args[1]
           THEN last'.exc # NoExc
           ELSE /\ last'.exc = NoExc
                /\ \E f \in loaded :
                      /\ h5py_File(f).Dither = last'.args[1]
                      /\ last'.val = MetadataOf(last'.op, h5py_File(f)) ]_vars

\* the file fails the check of the format tag
BadFormat(f) == f.file_format # FILE_FORMAT_NAME

\* the file fails the check of the dither, the detector or the exposure time
BadRange(f) == f.Dither \notin 1..4 \/ f.Detector \notin 1..16 \/ f.exp_time <= 0

\* C13: a load of a container with another format tag, a dither outside 1..4,
\* a detector outside 1..16 or an exposure time <= 0 raises and leaves every
\* field of the store unchanged; a container of the store's field with
\* dither 1 or 4 and detector 1 or 16 is loaded
C13_RejectedLoadKeepsStore ==
    [][ ( /\ last'.op = "load"
          /\ nloads' = nloads + 1
          /\ is_hdf5(last'.args[1]) )
        => /\ (BadFormat(h5py_File(last'.args[1])) \/ BadRange(h5py_File(last'.args[1])))
              => ( /\ last'.exc # NoExc
                   /\ storeVars' = storeVars
                   /\ loaded' = loaded )
           /\ ( /\ ~BadFormat(h5py_File(last'.args[1]))
                /\ h5py_File(last'.args[1]).Dither \in {1, 4}
                /\ h5py_File(last'.args[1]).Detector \in {1, 16}
                /\ h5py_File(last'.args[1]).exp_time > 0
                /\ _field_id \in {None, h5py_File(last'.args[1]).FieldID} )
              => ( /\ last'.exc = NoExc
                   /\ last'.args[1] \in loaded' ) ]_vars

\* C13 witness: a load of a container that fails one of the four checks has
\* raised in a store that holds spectra, models and metadata
C13_Witness ==
    /\ last.op = "load"
    /\ is_hdf5(last.args[1])
    /\ BadFormat(h5py_File(last.args[1])) \/ BadRange(h5py_File(last.args[1]))
    /\ last.exc = "ValueError"
    /\ "A.h5" \in loaded
    /\ _field_id = <<"F1">>
    /\ get_exposure_time(Self, 1) = Return(100)
    /\ HasSpectrum(Self, 1, 1, StrId(1))
    /\ HasModel(Self, 1, 1, 2, 1)

\* C14: every step of a get_spectra generator over a loaded dither and
\* detector that does not end the iteration yields a Spectrum, never None,
\* for the next id of get_object_ids, its contamination being the sum of the
\* models of its contaminants, whether the generator is the first or a later one
C14_GetSpectraYieldsAll ==
    [][ ( /\ last'.op = "next"
          /\ gen.state \in {"created", "running"}
          /\ ncalls' = ncalls + 1
          /\ get_object_ids(Self, gen.dither, gen.detector).exc = NoExc )
        => LET ids == IF gen.state = "created"
                      THEN get_object_ids(Self, gen.dither, gen.detector).val
                      ELSE gen.ids
           IN  /\ last'.exc = NoExc
               /\ last'.val # None
               /\ last'.val.id = str(Head(ids))
               /\ \A p \in DOMAIN last'.val.contamination.px :
                     last'.val.contamination.px[p] =
                        StoredContamination(Self, gen.dither, gen.detector,
                                            last'.val.contaminants, 1,
                                            last'.val.x_offset + p[2],
                                            last'.val.y_offset + p[1]) ]_vars

\* C15: a load that fails the check of the format tag raises FormatError, one
\* that fails a range check raises RangeError, one that fails the comparison
\* of the field ids raises FieldMismatchError
C15_ErrorKinds ==
    [][ ( /\ last'.op = "load"
          /\ nloads' = nloads + 1
          /\ is_hdf5(last'.args[1]) )
        => /\ BadFormat(h5py_File(last'.args[1])) => last'.exc = "FormatError"
           /\ (~BadFormat(h5py_File(last'.args[1])) /\ BadRange(h5py_File(last'.args[1])))
              => last'.exc = "RangeError"
           /\ ( /\ ~BadFormat(h5py_File(last'.args[1]))
                /\ ~BadRange(h5py_File(last'.args[1]))
                /\ _field_id # None
                /\ _field_id # h5py_File(last'.args[1]).FieldID )
              => last'.exc = "FieldMismatchError" ]_vars

\* what the store holds under the keys of the container f: the metadata of
\* its dither, its spectra and the models of its objects
ContainerView(self, f) ==
    [exposure_time |-> get_exposure_time(self, f.Dither),
     grism_position |-> get_grism_position(self, f.Dither),
     exposure_id |-> get_exposure_id(self, f.Dither),
     spectra |-> [i \in 1..Len(f.spectra) |->
                    IF /\ f.Dither \in DOMAIN self._hdf5_spectra
                       /\ f.Detector \in DOMAIN self._hdf5_spectra[f.Dither]
                       /\ f.spectra[i].object_id
                             \in ItemsKeys(self._hdf5_spectra[f.Dither][f.Detector])
                    THEN ItemsGet(self._hdf5_spectra[f.Dither][f.Detector],
                                  f.spectra[i].object_id)
                    ELSE None],
     models |-> [i \in 1..Len(f.models) |->
                   [order \in {1, 2} |->
                      get_model(self, f.Dither, f.Detector, f.models[i].name, order)]]]

\* the store holds under the keys of the container what a load of the
\* container into an empty store leaves there
Queryable(self, filename) ==
    ContainerView(self, h5py_File(filename))
       = ContainerView(_load_hdf5(__init__, filename).self, h5py_File(filename))

\* the index of the first of the containers that cannot be loaded when they
\* are loaded in the order listed, Len(names) + 1 if all can
RECURSIVE FirstFailure(_, _, _)
FirstFailure(self, names, i) ==
    IF i > Len(names) THEN i
    ELSE IF _load_hdf5(self, names[i]).exc # NoExc THEN i
    ELSE FirstFailure(_load_hdf5(self, names[i]).self, names, i + 1)

\* C18: when load of a manifest c1..cn into an empty store meets a container
\* ck that cannot be loaded, load raises, c1..c(k-1) have been loaded and the
\* store holds all of what each of them put there, and no key of a container
\* after ck is in the store
C18_ManifestFailureKeepsMerged ==
    [][ ( /\ last'.op = "load"
          /\ nloads' = nloads + 1
          /\ last'.args[1] \in DOMAIN Manifests
          /\ isabs(last'.args[1])
          /\ FirstFailure(Self, json_load(last'.args[1]), 1) <= Len(json_load(last'.args[1]))
          /\ loaded = {}
          /\ _hdf5_spectra = EmptyDict )
        => LET names == json_load(last'.args[1])
               k == FirstFailure(Self, names, 1)
           IN  /\ last'.exc # NoExc
               /\ \A i \in 1..(k - 1) : names[i] \in loaded' /\ Queryable(Self', names[i])
               /\ \A i \in (k + 1)..Len(names) :
                     /\ names[i] \notin loaded'
                     /\ is_hdf5(names[i])
                        => ~( /\ h5py_File(names[i]).Dither \in DOMAIN _hdf5_spectra'
                              /\ h5py_File(names[i]).Detector
                                    \in DOMAIN _hdf5_spectra'[h5py_File(names[i]).Dither] ) ]_vars

\* the group of a container is the stored spectrum
GroupIs(g, item) ==
    /\ g.object_id = item.k
    /\ g.x_offset = item.v.x_offset
    /\ g.y_offset = item.v.y_offset
    /\ g.science = item.v.science
    /\ g.contaminants = item.v.contaminants

\* the container is of the dither, the detector and the field, and the
\* stored spectrum is one of its groups
FileHasSpectrum(f, d, det, fid, item) ==
    /\ f.Dither = d /\ f.Detector = det /\ f.FieldID = fid
    /\ \E j \in 1..Len(f.spectra) : GroupIs(f.spectra[j], item)

DatasetsHave(datasets, order, model) ==
    \E n \in 1..Len(datasets) :
       datasets[n].order = order /\ datasets[n].pixels = model.pixels

\* the container is of the dither, the detector and the field, and the
\* stored model is one of its datasets
FileHasModel(f, d, det, fid, id, order, model) ==
    /\ f.Dither = d /\ f.Detector = det /\ f.FieldID = fid
    /\ \E j \in 1..Len(f.models) :
          f.models[j].name = id /\ DatasetsHave(f.models[j].datasets, order, model)

\* every spectrum and every model the store holds is one of a container
\* whose field id is the store's
FromOneField(self) ==
    /\ \A d \in DOMAIN self._hdf5_spectra : \A det \in DOMAIN self._hdf5_spectra[d] :
          \A i \in 1..Len(self._hdf5_spectra[d][det]) :
             \E fn \in DOMAIN Files :
                FileHasSpectrum(Files[fn], d, det, self._field_id,
                                self._hdf5_spectra[d][det][i])
    /\ \A d \in DOMAIN self._hdf5_models : \A det \in DOMAIN self._hdf5_models[d] :
          \A id \in DOMAIN self._hdf5_models[d][det] :
             \A order \in DOMAIN self._hdf5_models[d][det][id] :
                \E fn \in DOMAIN Files :
                   FileHasModel(Files[fn], d, det, self._field_id, id, order,
                                self._hdf5_models[d][det][id][order])

\* C20: in every reachable state every spectrum and model indexed comes from
\* a container whose field id equals the store's field_id, and a field_id
\* that has been set never changes
C20_SingleField ==
    /\ []FromOneField(Self)
    /\ [][ _field_id # None => _field_id' = _field_id ]_vars

\* C20 witness: the store holds two containers of its field and has just
\* rejected a container of another field
C20_Witness ==
    /\ last.op = "load"
    /\ last.args[1] \in {"C.h5", "D.h5"}
    /\ last.exc = "ValueError"
    /\ Cardinality(loaded) >= 2
    /\ _field_id = <<"F1">>
    /\ FromOneField(Self)

\* C16: _calibrate_spectrum for a dither whose sensitivity curve is None
\* raises nothing, returns None and changes nothing of the store or the
\* Inspector
C16_UnavailableNotRaised ==
    [][ ( /\ last'.op = "_calibrate_spectrum"
          /\ sensitivities[last'.args[1]] = None )
        => ( /\ last'.exc = NoExc
             /\ last'.val = None
             /\ UNCHANGED <<storeVars, appVars>> ) ]_vars

\* the curve covers the wavelength grid and its values all equal k
FlatCurve(curve, k, wavelengths) ==
    /\ \A i \in 1..Len(curve[2]) : curve[2][i] = Num(k)
    /\ \A i \in 1..Len(wavelengths) :
          less_equal(curve[1][1], wavelengths[i])
             /\ less_equal(wavelengths[i], curve[1][Len(curve[1])])

\* C17: with a flat sensitivity curve of value k # 0 that covers the grid, a
\* constant signal s on a grid of constant step and an exposure time > 0,
\* _calibrate_spectrum returns an array of the signal's length all of whose
\* elements are s / (|step| * exposure_time * k)
C17_FlatCalibration ==
    (last.op = "_calibrate_spectrum")
    => \A k \in FlatValues, s \in SignalValues, step \in Steps :
          ( /\ k # 0
            /\ sensitivities[last.args[1]] # None
            /\ FlatCurve(sensitivities[last.args[1]], k, last.args[3])
            /\ Len(last.args[3]) >= 2
            /\ last.args[3] = Grid(10, step, Len(last.args[3]))
            /\ last.args[2] = [i \in 1..Len(last.args[3]) |-> Num(s)]
            /\ exposures # None
            /\ exposures[last.args[1]] > 0 )
          => ( /\ last.exc = NoExc
               /\ Len(last.val) = Len(last.args[2])
               /\ \A i \in 1..Len(last.val) :
                     last.val[i] = Frac(s, abs(step) * exposures[last.args[1]] * k) )

\* C17 witness: a flat signal 3 on a grid of 3 samples of step 2 has been
\* calibrated with a flat curve of value 2 and exposure time 2 to 3/8
C17_Witness ==
    /\ last.op = "_calibrate_spectrum"
    /\ last.exc = NoExc
    /\ sensitivities[last.args[1]] # None
    /\ FlatCurve(sensitivities[last.args[1]], 2, last.args[3])
    /\ last.args[3] = Grid(10, 2, 3)
    /\ last.args[2] = [i \in 1..3 |-> Num(3)]
    /\ exposures # None
    /\ exposures[last.args[1]] = 2
    /\ last.val = [i \in 1..3 |-> [n |-> 3, d |-> 8]]

\* the store rejects the file for its format tag, for a value out of range or
\* for a field id other than that of a container listed before it
StoreRejects(filename) ==
    \/ /\ is_hdf5(filename)
       /\ BadFormat(h5py_File(filename)) \/ BadRange(h5py_File(filename))
    \/ /\ filename \in DOMAIN Manifests
       /\ isabs(filename)
       /\ \A i \in 1..Len(json_load(filename)) : is_hdf5(json_load(filename)[i])
       /\ load(__init__, filename).exc = "ValueError"

\* C19: a load_spectra whose store raises a load error leaves
\* Inspector.collection and Inspector.spectra as they were
C19_FailedLoadKeepsCollection ==
    [][ ( /\ last'.op = "load_spectra"
          /\ nloads' = nloads + 1
          /\ StoreRejects(last'.args[1]) )
        => ( /\ collection' = collection
             /\ spectra' = spectra ) ]_vars
(***************************************************************************)
(* The layers of a stored spectrum.                                        *)
(***************************************************************************)
\* the shape of an array given with its pixels
shape(array) == <<array.h, array.w>>

\* the four layers of the spectrum are of one two-dimensional shape
SameShape(spec) ==
    /\ Len(spec.science) = 2
    /\ spec.variance = spec.science
    /\ spec.mask = spec.science
    /\ shape(spec.contamination) = spec.science

\* C21: in every reachable state of the store the science, variance, mask
\* and contamination arrays of every stored spectrum have the same 2-D shape
C21_LayersShareShape ==
    \A d \in DOMAIN _hdf5_spectra : \A det \in DOMAIN _hdf5_spectra[d] :
       \A i \in 1..Len(_hdf5_spectra[d][det]) : SameShape(_hdf5_spectra[d][det][i].v)

(***************************************************************************)
(* Contaminants of order 0.                                                *)
(***************************************************************************)
IsModelled(contaminant) == contaminant.order # 0

\* the spectrum without its contaminants of order 0
WithoutOrderZero(spec) == [spec EXCEPT !.contaminants = SelectSeq(@, IsModelled)]

\* C22: materializing a spectrum gives the contamination, and the outcome,
\* that it gives for the spectrum without its contaminants of order 0, and
\* never raises the ValueError of get_model for order 0
C22_OrderZeroSkipped ==
    [][ ( /\ last'.op = "get_spectrum"
          /\ ncalls' = ncalls + 1
          /\ HasSpectrum(Self, last'.args[1], last'.args[2], last'.args[3]) )
        => LET spec == SpectrumOf(Self, last'.args[1], last'.args[2], last'.args[3])
               r0 == _compute_total_contamination(Self, last'.args[1], last'.args[2],
                                                  WithoutOrderZero(spec))
           IN  /\ last'.exc # "ValueError"
               /\ last'.exc = r0.exc
               /\ _hdf5_spectra' =
                     [_hdf5_spectra EXCEPT ![last'.args[1]][last'.args[2]] =
                         ItemsSet(@, str(last'.args[3]),
                                  [spec EXCEPT !.contamination = r0.canvas])] ]_vars

\* get_spectrum returned a spectrum that has a contaminant of order 0 and a
\* contaminant whose model was added
C22_Witness ==
    /\ last.op = "get_spectrum" /\ last.exc = NoExc /\ last.val # None
    /\ \E i \in 1..Len(last.val.contaminants) : last.val.contaminants[i].order = 0
    /\ \E p \in DOMAIN last.val.contamination.px : last.val.contamination.px[p] # 0

(***************************************************************************)
(* Who writes a contamination array.                                       *)
(***************************************************************************)
Zeroed(array) == \A p \in DOMAIN array.px : array.px[p] = 0

\* the spectra stored for the dither and the detector, none if there is no
\* such entry
StoredAt(hdf5_spectra, d, det) ==
    IF d \in DOMAIN hdf5_spectra /\ det \in DOMAIN hdf5_spectra[d]
    THEN hdf5_spectra[d][det] ELSE << >>

\* the HDF5 containers that a load of the file reads
ContainersOf(filename) ==
    IF filename \in DOMAIN Manifests
    THEN { Manifests[filename][i] : i \in 1..Len(Manifests[filename]) } \cap DOMAIN Files
    ELSE {filename} \cap DOMAIN Files

\* the container has a group of the object for the dither and the detector
HoldsKey(f, d, det, k) ==
    /\ f.Dither = d /\ f.Detector = det
    /\ \E j \in 1..Len(f.spectra) : f.spectra[j].object_id = k

Touched(filename, d, det, k) ==
    \E fn \in ContainersOf(filename) : HoldsKey(Files[fn], d, det, k)

\* C23: a spectrum that a load indexes has a contamination array of zeros,
\* a load leaves the stored spectra of every key outside the containers it
\* reads as they were, and a step that is neither a load nor get_spectrum
\* leaves every stored spectrum, its contamination array included, unchanged
C23_OnlyCompositorWrites ==
    [][ /\ ( last'.op = "load" /\ nloads' = nloads + 1 ) =>
             /\ \A d \in DOMAIN _hdf5_spectra' : \A det \in DOMAIN _hdf5_spectra'[d] :
                   \A i \in 1..Len(_hdf5_spectra'[d][det]) :
                      \/ \E j \in 1..Len(StoredAt(_hdf5_spectra, d, det)) :
                            _hdf5_spectra[d][det][j] = _hdf5_spectra'[d][det][i]
                      \/ /\ Zeroed(_hdf5_spectra'[d][det][i].v.contamination)
                         /\ Touched(last'.args[1], d, det, _hdf5_spectra'[d][det][i].k)
             /\ \A d \in DOMAIN _hdf5_spectra : \A det \in DOMAIN _hdf5_spectra[d] :
                   \A j \in 1..Len(_hdf5_spectra[d][det]) :
                      \/ \E i \in 1..Len(StoredAt(_hdf5_spectra', d, det)) :
                            _hdf5_spectra'[d][det][i] = _hdf5_spectra[d][det][j]
                      \/ Touched(last'.args[1], d, det, _hdf5_spectra[d][det][j].k)
        /\ ( last'.op \notin {"load", "get_spectrum", "next"} ) =>
             _hdf5_spectra' = _hdf5_spectra ]_vars

\* a load has indexed a spectrum while the store held another whose
\* contamination get_spectrum had filled
C23_Witness ==
    /\ last.op = "load" /\ last.exc = NoExc
    /\ \E d \in DOMAIN _hdf5_spectra : \E det \in DOMAIN _hdf5_spectra[d] :
          \E i \in 1..Len(_hdf5_spectra[d][det]) :
             ~Zeroed(_hdf5_spectra[d][det][i].v.contamination)
    /\ \E d \in DOMAIN _hdf5_spectra : \E det \in DOMAIN _hdf5_spectra[d] :
          /\ <<d, det>> # <<1, 1>>
          /\ \E i \in 1..Len(_hdf5_spectra[d][det]) :
                Zeroed(_hdf5_spectra[d][det][i].v.contamination)

(***************************************************************************)
(* The bin widths of the calibration.                                      *)
(***************************************************************************)
\* the bin width of the sample at index i (from 1) of the grid: the
\* difference to the sample before it, the first one taking the width of
\* the second
BinWidth(wavelengths, i) ==
    IF i = 1 THEN fabs(subtract(wavelengths[2], wavelengths[1]))
    ELSE fabs(subtract(wavelengths[i], wavelengths[i - 1]))

\* C24: with a flat sensitivity curve of value k # 0 that covers a grid of
\* n >= 2 samples whose bins are not empty, sample i of the result is the
\* signal's sample i divided by BinWidth(i) x exposure time x k
C24_BinWidths ==
    (last.op = "_calibrate_spectrum")
    => \A k \in FlatValues :
          ( /\ sensitivities[last.args[1]] # None
            /\ FlatCurve(sensitivities[last.args[1]], k, last.args[3])
            /\ Len(last.args[3]) >= 2
            /\ Len(last.args[2]) = Len(last.args[3])
            /\ \A i \in 1..Len(last.args[3]) : BinWidth(last.args[3], i) # Num(0)
            /\ exposures # None
            /\ exposures[last.args[1]] > 0 )
          => ( /\ last.exc = NoExc
               /\ Len(last.val) = Len(last.args[2])
               /\ \A i \in 1..Len(last.val) :
                     last.val[i] =
                        true_divide(last.args[2][i],
                                    multiply(multiply(BinWidth(last.args[3], i),
                                                      Num(exposures[last.args[1]])),
                                             Num(k))) )

(***************************************************************************)
(* Zeros of the sensitivity curve.                                         *)
(***************************************************************************)
\* 1 / value for a finite value # 0
Reciprocal(value) == Frac(value.d, value.n)

\* the denominators of the calibration are not 0: an exposure time > 0 and
\* no two neighbouring samples of the grid at the same wavelength
ProperBins(exposure_time, wavelengths) ==
    /\ exposure_time > 0
    /\ Len(wavelengths) >= 2
    /\ \A i \in 1..(Len(wavelengths) - 1) : wavelengths[i + 1] # wavelengths[i]

\* C25: the inverse of the sensitivity curve is 0 where the curve is 0 and
\* 1/value elsewhere, and a calibration whose denominators are not 0 returns
\* finite numbers and raises nothing, zeros in the curve or not
C25_ZeroSensitivity ==
    ( last.op = "_calibrate_spectrum" /\ sensitivities[last.args[1]] # None )
    => LET sensitivity_value == sensitivities[last.args[1]][2]
       IN  /\ \A i \in 1..Len(sensitivity_value) :
                 div0(Num(1), sensitivity_value)[i] =
                    IF sensitivity_value[i] = Num(0) THEN Num(0)
                    ELSE Reciprocal(sensitivity_value[i])
           /\ ( /\ exposures # None
                /\ ProperBins(exposures[last.args[1]], last.args[3])
                /\ Len(last.args[2]) = Len(last.args[3]) )
              => ( /\ last.exc = NoExc
                   /\ \A i \in 1..Len(last.val) : isfinite(last.val[i]) )

\* a signal without zeros has been calibrated with a curve that has a zero,
\* on a grid with a sample where the curve is 0 and one where it is not
C25_Witness ==
    /\ last.op = "_calibrate_spectrum"
    /\ last.exc = NoExc
    /\ sensitivities[last.args[1]] # None
    /\ \E i \in 1..Len(sensitivities[last.args[1]][2]) :
          sensitivities[last.args[1]][2][i] = Num(0)
    /\ exposures # None
    /\ ProperBins(exposures[last.args[1]], last.args[3])
    /\ \A i \in 1..Len(last.args[2]) : last.args[2][i] # Num(0)
    /\ \E i \in 1..Len(last.val) : last.val[i] = Num(0)
    /\ \E i \in 1..Len(last.val) : last.val[i] # Num(0)

(***************************************************************************)
(* The window of a plot.                                                   *)
(***************************************************************************)
\* C26: for every grid, increasing or decreasing, i_min <= i_max and the x
\* values and a y series are sliced to the same length, whether the series
\* has the grid's length or another; and _plot with a series selected, for
\* a spectrum the collection holds, raises nothing
C26_WindowSlices ==
    /\ ( last.op = "sliced" ) =>
          /\ last.val.i_min <= last.val.i_max
          /\ last.val.x_values = last.val.y_values
    /\ ( /\ last.op = "_plot"
         /\ last.args[4] # 0
         /\ collection # None
         /\ HasSpectrum(collection, last.args[1], last.args[2], last.args[3]) )
       => last.exc = NoExc

(***************************************************************************)
(* The regions of overlap.                                                 *)
(***************************************************************************)
\* the box <<left, bottom, width, height>> of an array at its offset
BoxOf(flux) == <<flux[1][1], flux[1][2], flux[2].w, flux[2].h>>

\* the region <<left, bottom, right, top>> has the width and height and lies
\* within [0, width] x [0, height] of the box
RegionWithin(region, w, h, box) ==
    /\ region[3] - region[1] = w /\ region[4] - region[2] = h
    /\ 0 <= region[1] /\ region[3] <= box[3]
    /\ 0 <= region[2] /\ region[4] <= box[4]

\* C28: bounding_indices of the contaminant's and the canvas's boxes returns
\* either two regions of one positive width and height, each within its box,
\* that denote the same detector pixels, or (None, None), and (None, None)
\* exactly when no detector pixel is in both boxes
C28_RegionsAgree ==
    ( last.op = "apply_contaminant" )
    => LET box1 == BoxOf(contamA)
           box2 == BoxOf(canvas0)
           r == bounding_indices(box1, box2)
       IN  /\ ( r[1] = None ) <=> ( r[2] = None )
           /\ ( r[1] = None ) <=> ( PixelsOf(contamA) \cap PixelsOf(canvas0) = {} )
           /\ ( r[1] # None ) =>
                 /\ r[1][3] - r[1][1] > 0 /\ r[1][4] - r[1][2] > 0
                 /\ RegionWithin(r[1], r[1][3] - r[1][1], r[1][4] - r[1][2], box1)
                 /\ RegionWithin(r[2], r[1][3] - r[1][1], r[1][4] - r[1][2], box2)
                 /\ r[1][1] + box1[1] = r[2][1] + box2[1]
                 /\ r[1][2] + box1[2] = r[2][2] + box2[2]

\* a contaminant has been applied whose box overlaps the canvas's box in a
\* region smaller than both boxes
C28_Witness ==
    /\ last.op = "apply_contaminant"
    /\ last.exc = NoExc
    /\ bounding_indices(BoxOf(contamA), BoxOf(canvas0))[1] # None
    /\ Cardinality(PixelsOf(contamA) \cap PixelsOf(canvas0)) < Cardinality(PixelsOf(contamA))
    /\ Cardinality(PixelsOf(contamA) \cap PixelsOf(canvas0)) < Cardinality(PixelsOf(canvas0))

(***************************************************************************)
(* The exposure time of the calibrator.                                    *)
(***************************************************************************)
\* C27: when the store holds a container of the dither, a constant signal s
\* on a grid of constant step, with a flat sensitivity curve of value k # 0
\* that covers the grid, is calibrated to s / (|step| x T x k) where T is
\* get_exposure_time(dither) of the store
C27_StoreExposureTime ==
    (last.op = "_calibrate_spectrum")
    => \A k \in FlatValues, step \in Steps :
          ( /\ collection # None
            /\ get_exposure_time(collection, last.args[1]).exc = NoExc
            /\ get_exposure_time(collection, last.args[1]).val > 0
            /\ sensitivities[last.args[1]] # None
            /\ FlatCurve(sensitivities[last.args[1]], k, last.args[3])
            /\ Len(last.args[3]) >= 2
            /\ last.args[3] = Grid(10, step, Len(last.args[3]))
            /\ last.args[2] = [i \in 1..Len(last.args[3]) |-> Num(3)] )
          => ( /\ last.exc = NoExc
               /\ \A i \in 1..Len(last.val) :
                     last.val[i] =
                        Frac(3, abs(step) * get_exposure_time(collection, last.args[1]).val * k) )

(***************************************************************************)
(* Location tables that fail to load.                                      *)
(***************************************************************************)
\* the file load_location_tables reads when the dialog returns chosen
LocationFileName(chosen) ==
    IF ~_loading_session THEN chosen
    ELSE IF "location_tables" \in DOMAIN _session THEN _session["location_tables"] ELSE ""

\* C29: a call of load_location_tables in which the LocationTable
\* constructor raises leaves collection, spectra and location_tables as
\* they were
C29_FailedLoadKeeps ==
    [][ ( /\ last'.op = "load_location_tables"
          /\ isfile(LocationFileName(last'.args[1]))
          /\ LocationTable(LocationFileName(last'.args[1])).exc # NoExc )
        => ( /\ collection' = collection
             /\ spectra' = spectra
             /\ location_tables' = location_tables ) ]_vars

(***************************************************************************)
(* The flag of a session that is being loaded.                             *)
(***************************************************************************)
\* C30: once load_session has returned or failed, _loading_session is false
C30_FlagCleared == (last.op = "load_session") => ~_loading_session

====
